---- MODULE Spec2Model ----
(***************************************************************************)
(* A model of the haku task runner's engine (src/src/vm.rs) together with  *)
(* the parts of the variable manager (src/src/var.rs) and of the operation *)
(* model (src/src/ops.rs) the engine relies on.                            *)
(*                                                                         *)
(* Conventions                                                             *)
(*  - A Rust String is a sequence of one-character strings: "ab" is        *)
(*    <<"a", "b">>.  Recipe names and error kinds are compared only for    *)
(*    equality and are kept as TLA+ strings.                               *)
(*  - Rust indexes vectors from 0, TLA+ sequences from 1: the op at Rust   *)
(*    index i is ops[i + 1] here.  exec_end's "0 = just continue" result   *)
(*    cannot clash with a jump target in either numbering.                 *)
(*  - A Result<T, HakuError> is a record whose err field is "" for Ok.     *)
(*  - Option<&[T]> is a sequence; None is the empty sequence (every use of *)
(*    the option in push_recipe is an `any` over it).                      *)
(***************************************************************************)
EXTENDS Integers, Sequences, FiniteSets, TLC

VARIABLES
    pending,      \* the caller: scripts it has still to load (parsed, dead code
                  \* removed) and the recipe names it may run
    files,        \* Engine.files
    recipes,      \* Engine.recipes
    vars,         \* VarMgr.vars: the script's global variables
    recipe_vars,  \* VarMgr.recipe_vars
    free,         \* VarMgr.free
    env,          \* VarMgr.env
    opts,         \* Engine.opts: the RunOpts the engine was created with
    included,     \* Engine.included: the paths of the files loaded from disk
    cond_stack,   \* Engine.cond_stack
    phase,        \* where the caller / run_recipe is: load, idle, init, resolve, body, done
    init_i,       \* exec_init's loop counter i
    file,         \* file index of the running exec_file_init / exec_from
    pc,           \* op index of the running exec_file_init / exec_from
    sec_res,      \* run_recipe's sec_res: [some, loc]
    sec,          \* exec_recipe's sec: the linearized recipe list
    sidx,         \* exec_recipe's idx
    result,       \* what run_recipe returned: kind "none" while it runs
    trace         \* history: headers started, recipes entered/left, commands spawned

vars_all == <<pending, files, recipes, vars, recipe_vars, free, env, opts, included, cond_stack,
              phase, init_i, file, pc, sec_res, sec, sidx, result, trace>>

----------------------------------------------------------------------------
(* Bounds of the model *)

\* number of recipes in a generated dependency script
NRecipes == 3
\* total number of dependency names written in a generated dependency script
MaxEdges == 3
\* number of files loaded in a generated multi-file script
MaxFiles == 2
\* largest start / end of a generated integer range
MaxInt == 2
\* longest generated `for` source string and longest identifier list
MaxLen == 3
\* most `elseif` branches of a generated conditional
MaxElseIf == 2
\* most terms of a generated right-hand side
MaxTerms == 3
\* most include lines of a generated set of files on disk
MaxIncludes == 3
\* most predicates of a generated feature guard, most values of a predicate
MaxPreds == 2
MaxVals == 2
\* longest generated template of interpolate
MaxTemplate == 5
\* most free arguments the caller gives
MaxArgs == 3

----------------------------------------------------------------------------
(* Strings *)

IsWhitespace(c) == c \in {" ", "\n", "\t"}

\* position of the first c in s, 0 for None
find(s, c) ==
    IF \E i \in 1..Len(s) : s[i] = c
    THEN CHOOSE i \in 1..Len(s) : s[i] = c /\ \A j \in 1..(i - 1) : s[j] # c
    ELSE 0

starts_with(s, p) == Len(s) >= Len(p) /\ SubSeq(s, 1, Len(p)) = p

skip(s, n) == SubSeq(s, n + 1, Len(s))

RECURSIVE trim_end(_)
trim_end(s) ==
    IF s = <<>> THEN s
    ELSE IF IsWhitespace(s[Len(s)]) THEN trim_end(SubSeq(s, 1, Len(s) - 1))
    ELSE s

RECURSIVE split(_, _)
split(s, sep) ==
    LET p == find(s, sep) IN
    IF p = 0 THEN <<s>>
    ELSE <<SubSeq(s, 1, p - 1)>> \o split(skip(s, p), sep)

\* length of the longest prefix of s without whitespace
RECURSIVE word_len(_)
word_len(s) ==
    IF s = <<>> \/ IsWhitespace(s[1]) THEN 0 ELSE 1 + word_len(Tail(s))

RECURSIVE split_ascii_whitespace(_)
split_ascii_whitespace(s) ==
    IF s = <<>> THEN <<>>
    ELSE IF IsWhitespace(s[1]) THEN split_ascii_whitespace(Tail(s))
    ELSE <<SubSeq(s, 1, word_len(s))>> \o split_ascii_whitespace(skip(s, word_len(s)))

\* str::lines: split at line feeds, a final line feed ends the last line
lines(s) ==
    IF s = <<>> THEN <<>>
    ELSE LET parts == split(s, "\n") IN
         IF s[Len(s)] = "\n" THEN SubSeq(parts, 1, Len(parts) - 1) ELSE parts

map_trim_end(v) == [i \in 1..Len(v) |-> trim_end(v[i])]

Digit(d) == <<"0", "1", "2", "3", "4", "5", "6", "7", "8", "9">>[d + 1]

RECURSIVE nat_to_string(_)
nat_to_string(n) ==
    IF n < 10 THEN <<Digit(n)>> ELSE nat_to_string(n \div 10) \o <<Digit(n % 10)>>

\* format!("{}", i)
int_to_string(i) == IF i < 0 THEN <<"-">> \o nat_to_string(-i) ELSE nat_to_string(i)

----------------------------------------------------------------------------
(* Values (var.rs) *)

\* the characters of the model's strings in the order of their code points
Alphabet == <<"\t", "\n", " ", "#", "$", "+", "-", "/", "0", "1", "2", "3", "4", "5", "6",
              "7", "8", "9", "H", "\\", "a", "b", "c", "d", "e", "f", "g", "h", "i", "j",
              "k", "l", "m", "n", "o", "p", "q", "r", "s", "t", "u", "v", "w", "x", "y",
              "z", "{", "}">>
char_rank(c) == CHOOSE i \in 1..Len(Alphabet) : Alphabet[i] = c

\* String's Ord: lexicographic by code point, a proper prefix is the lesser
RECURSIVE str_lt(_, _)
str_lt(a, b) ==
    IF b = <<>> THEN FALSE
    ELSE IF a = <<>> THEN TRUE
    ELSE IF a[1] = b[1] THEN str_lt(Tail(a), Tail(b))
    ELSE char_rank(a[1]) < char_rank(b[1])
str_gt(a, b) == str_lt(b, a)
str_le(a, b) == ~str_lt(b, a)
str_ge(a, b) == ~str_lt(a, b)

RECURSIVE trim_start(_)
trim_start(s) ==
    IF s = <<>> THEN s
    ELSE IF IsWhitespace(s[1]) THEN trim_start(Tail(s))
    ELSE s
trim(s) == trim_start(trim_end(s))

IsDigit(c) == c \in {"0", "1", "2", "3", "4", "5", "6", "7", "8", "9"}
digit_value(c) == CHOOSE d \in 0..9 : Digit(d) = c
RECURSIVE digits_value(_, _)
digits_value(acc, s) ==
    IF s = <<>> THEN acc ELSE digits_value(acc * 10 + digit_value(s[1]), Tail(s))
\* s.parse::<i64>().unwrap_or(0): an optional sign and at least one digit, else 0
parse_i64_or_0(s) ==
    LET neg  == s # <<>> /\ s[1] = "-"
        body == IF s # <<>> /\ s[1] \in {"+", "-"} THEN Tail(s) ELSE s
    IN  IF body = <<>> \/ \E i \in 1..Len(body) : ~IsDigit(body[i]) THEN 0
        ELSE IF neg THEN 0 - digits_value(0, body) ELSE digits_value(0, body)

\* VarValue: t is the variant; i an Int's value or an Exec's exit code; s a Str's
\* text or an Exec's stdout; l a List's items
Undefined == [t |-> "Undefined", i |-> 0, s |-> <<>>, l |-> <<>>]
VStr(s)   == [t |-> "Str", i |-> 0, s |-> s, l |-> <<>>]
VInt(i)   == [t |-> "Int", i |-> i, s |-> <<>>, l |-> <<>>]
VList(l)  == [t |-> "List", i |-> 0, s |-> <<>>, l |-> l]
VExec(code, stdout) == [t |-> "Exec", i |-> code, s |-> stdout, l |-> <<>>]

\* the loops of to_string / to_flat_string: a separator goes in front of an item
\* only when something was collected before it
RECURSIVE join_from(_, _, _)
join_from(acc, items, sep) ==
    IF items = <<>> THEN acc
    ELSE join_from((IF acc # <<>> THEN acc \o sep ELSE acc) \o Head(items), Tail(items), sep)

join(items, sep) == join_from(<<>>, items, sep)

to_string(v) ==
    CASE v.t = "Undefined" -> <<>>
      [] v.t = "Str"       -> v.s
      [] v.t = "Int"       -> int_to_string(v.i)
      [] v.t = "List"      -> join(v.l, <<"\n">>)
      [] v.t = "Exec"      -> IF v.i = 0 THEN v.s ELSE <<>>

to_flat_string(v) ==
    CASE v.t = "Undefined" -> <<>>
      [] v.t = "Str"       -> v.s
      [] v.t = "Int"       -> int_to_string(v.i)
      [] v.t = "List"      -> join(v.l, <<" ">>)
      [] v.t = "Exec"      -> IF v.i = 0 THEN join(map_trim_end(lines(v.s)), <<" ">>) ELSE <<>>

is_true(v) ==
    CASE v.t = "Undefined" -> FALSE
      [] v.t = "Int"       -> v.i # 0
      [] v.t = "Str"       -> v.s # <<>>
      [] v.t = "List"      -> v.l # <<>> /\ v.l[1] # <<>>
      [] v.t = "Exec"      -> v.i = 0

cmp_eq(a, b) ==
    CASE a.t = "Undefined" -> b.t = "Undefined"
      [] a.t = "List" ->
            CASE b.t = "List" -> Len(a.l) = Len(b.l) /\ \A k \in 1..Len(a.l) : a.l[k] = b.l[k]
              [] b.t = "Exec" -> b.i = 0 /\ trim(b.s) = to_string(a)
              [] b.t = "Str"  -> to_flat_string(a) = b.s
              [] b.t = "Int"  -> Len(a.l) = 1 /\ a.l[1] = int_to_string(b.i)
              [] OTHER        -> FALSE
      [] a.t = "Exec" ->
            CASE b.t = "Exec" -> a.i = b.i
              [] b.t = "Str"  -> a.s = b.s
              [] b.t = "Int"  -> a.i = b.i
              [] b.t = "List" -> a.i = 0 /\ a.s = to_string(b)
              [] OTHER        -> FALSE
      [] a.t = "Str" ->
            CASE b.t = "Exec" -> a.s = b.s
              [] b.t = "Str"  -> a.s = b.s
              [] b.t = "Int"  -> a.s = int_to_string(b.i)
              [] b.t = "List" -> a.s = to_flat_string(b)
              [] OTHER        -> FALSE
      [] a.t = "Int" ->
            CASE b.t = "Exec" -> a.i = b.i
              [] b.t = "Str"  -> int_to_string(a.i) = b.s
              [] b.t = "Int"  -> a.i = b.i
              [] b.t = "List" -> Len(b.l) = 1 /\ b.l[1] = int_to_string(a.i)
              [] OTHER        -> FALSE

cmp_greater(a, b) ==
    CASE a.t = "Undefined" -> FALSE
      [] a.t = "Exec" ->
            CASE b.t = "Exec" -> IF a.i = 0 /\ b.i # 0 THEN TRUE
                                 ELSE IF a.i # 0 /\ b.i = 0 THEN FALSE
                                 ELSE a.i > b.i
              [] b.t = "Str"  -> str_gt(a.s, b.s)
              [] b.t = "Int"  -> a.i > b.i
              [] b.t = "List" -> a.i = 0 /\ str_gt(a.s, to_string(b))
              [] OTHER        -> TRUE
      [] a.t = "Str" ->
            CASE b.t = "Exec" -> str_gt(a.s, b.s)
              [] b.t = "Str"  -> str_gt(a.s, b.s)
              [] b.t = "Int"  -> str_gt(a.s, int_to_string(b.i))
              [] b.t = "List" -> str_gt(a.s, to_flat_string(b))
              [] OTHER        -> TRUE
      [] a.t = "Int" ->
            CASE b.t = "Exec" -> a.i > b.i
              [] b.t = "Str"  -> str_gt(int_to_string(a.i), b.s)
              [] b.t = "Int"  -> a.i > b.i
              [] b.t = "List" -> IF b.l = <<>> THEN TRUE ELSE a.i > parse_i64_or_0(b.l[1])
              [] OTHER        -> TRUE
      [] a.t = "List" ->
            CASE b.t = "Exec" -> b.i # 0 \/ str_gt(to_string(a), b.s)
              [] b.t = "Str"  -> str_gt(to_flat_string(a), b.s)
              [] b.t = "Int"  -> IF a.l = <<>> THEN FALSE ELSE parse_i64_or_0(a.l[1]) > b.i
              [] b.t = "List" -> IF Len(a.l) > Len(b.l) THEN TRUE
                                 ELSE \A k \in 1..Len(a.l) : ~str_le(a.l[k], b.l[k])
              [] OTHER        -> TRUE

cmp_less(a, b) ==
    CASE a.t = "Undefined" -> b.t # "Undefined"
      [] a.t = "Exec" ->
            CASE b.t = "Exec" -> IF a.i = 0 /\ b.i # 0 THEN TRUE
                                 ELSE IF a.i # 0 /\ b.i = 0 THEN FALSE
                                 ELSE a.i > b.i
              [] b.t = "Str"  -> str_lt(a.s, b.s)
              [] b.t = "Int"  -> a.i < b.i
              [] b.t = "List" -> a.i # 0 \/ str_lt(a.s, to_string(b))
              [] OTHER        -> FALSE
      [] a.t = "Str" ->
            CASE b.t = "Exec" -> str_lt(a.s, b.s)
              [] b.t = "Str"  -> str_lt(a.s, b.s)
              [] b.t = "Int"  -> str_lt(a.s, int_to_string(b.i))
              [] b.t = "List" -> str_lt(a.s, to_flat_string(b))
              [] OTHER        -> FALSE
      [] a.t = "Int" ->
            CASE b.t = "Exec" -> a.i < b.i
              [] b.t = "Str"  -> str_lt(int_to_string(a.i), b.s)
              [] b.t = "Int"  -> a.i < b.i
              [] b.t = "List" -> IF b.l = <<>> THEN FALSE ELSE a.i < parse_i64_or_0(b.l[1])
              [] OTHER        -> FALSE
      [] a.t = "List" ->
            CASE b.t = "Exec" -> b.i = 0 /\ str_lt(to_string(a), b.s)
              [] b.t = "Str"  -> str_lt(to_flat_string(a), b.s)
              [] b.t = "Int"  -> IF a.l = <<>> THEN FALSE ELSE parse_i64_or_0(a.l[1]) < b.i
              [] b.t = "List" -> IF Len(a.l) > Len(b.l) THEN FALSE
                                 ELSE \A k \in 1..Len(a.l) : ~str_ge(a.l[k], b.l[k])
              [] OTHER        -> FALSE

cmp(a, b, cmp_op) ==
    CASE cmp_op = "==" -> cmp_eq(a, b)
      [] cmp_op = "!=" -> ~cmp_eq(a, b)
      [] cmp_op = ">"  -> cmp_greater(a, b)
      [] cmp_op = "<"  -> cmp_less(a, b)
      [] cmp_op = ">=" -> ~cmp_less(a, b)
      [] cmp_op = "<=" -> ~cmp_greater(a, b)

----------------------------------------------------------------------------
(* Variable manager (var.rs) *)

Var(name, value) == [name |-> name, value |-> value]

\* the process environment the engine runs in: env::var finds H and nothing else
os_env == [n \in {<<"H">>} |-> <<"/">>]
os_env_has(name) == name \in DOMAIN os_env

HasVar(list, name) == \E i \in 1..Len(list) : list[i].name = name
VarPos(list, name) == CHOOSE i \in 1..Len(list) :
                         list[i].name = name /\ \A j \in 1..(i - 1) : list[j].name # name

set_in(list, name, val) == [list EXCEPT ![VarPos(list, name)].value = val]

\* the pair <<recipe_vars, vars>> after set_recipe_var / set_var on <<rv, gv>>
set_recipe_var(rv, gv, name, val) ==
    IF HasVar(rv, name) THEN <<set_in(rv, name, val), gv>>
    ELSE <<Append(rv, Var(name, val)), gv>>

\* a variant that creates an unknown name as a recipe-local variable
set_var_local(rv, gv, name, val) ==
    IF HasVar(rv, name) THEN <<set_in(rv, name, val), gv>>
    ELSE IF HasVar(gv, name) THEN <<rv, set_in(gv, name, val)>>
    ELSE <<Append(rv, Var(name, val)), gv>>

set_var(rv, gv, name, val) ==
    IF HasVar(rv, name) THEN <<set_in(rv, name, val), gv>>
    ELSE IF HasVar(gv, name) THEN <<rv, set_in(gv, name, val)>>
    ELSE <<rv, Append(gv, Var(name, val))>>

\* a read that looks at the globals before the recipe-local variables
var_global_first(name) ==
    IF HasVar(vars, name) THEN vars[VarPos(vars, name)].value
    ELSE IF HasVar(recipe_vars, name) THEN recipe_vars[VarPos(recipe_vars, name)].value
    ELSE IF name \in DOMAIN env THEN VStr(env[name])
    ELSE IF os_env_has(name) THEN VStr(os_env[name])
    ELSE Undefined

var(name) ==
    IF HasVar(recipe_vars, name) THEN recipe_vars[VarPos(recipe_vars, name)].value
    ELSE IF HasVar(vars, name) THEN vars[VarPos(vars, name)].value
    ELSE IF name \in DOMAIN env THEN VStr(env[name])
    ELSE IF os_env_has(name) THEN VStr(os_env[name])
    ELSE Undefined

\* the escape sequences interpolate replaces, in the order it tries them
escapes == << [what |-> <<"\\", "\\">>, with |-> <<"\\">>],
              [what |-> <<"\\", "n">>,  with |-> <<"\n">>],
              [what |-> <<"\\", "t">>,  with |-> <<"\t">>],
              [what |-> <<"\\", "$">>,  with |-> <<"$">>],
              [what |-> <<"\\", "'">>,  with |-> <<"'">>],
              [what |-> <<"\\", "\"">>, with |-> <<"\"">>] >>

RECURSIVE interpolate_loop(_, _, _)
interpolate_loop(res, s_ptr, flat) ==
    IF s_ptr = <<>> THEN res
    ELSE
    LET start_d == find(s_ptr, "$")
        start_s == find(s_ptr, "\\")
    IN
    IF start_s = 0 /\ start_d = 0 THEN res \o s_ptr
    ELSE IF start_s = 0 \/ (start_d # 0 /\ start_d < start_s) THEN
        LET res1 == res \o SubSeq(s_ptr, 1, start_d - 1)
            p    == skip(s_ptr, start_d - 1)
        IN
        IF starts_with(p, <<"$", "$">>) THEN interpolate_loop(res1 \o <<"$">>, skip(p, 2), flat)
        ELSE IF ~starts_with(p, <<"$", "{">>) THEN interpolate_loop(res1 \o <<"$">>, skip(p, 1), flat)
        ELSE
            LET q  == skip(p, 2)
                bp == find(q, "}")
            IN
            IF bp = 0 THEN res1 \o <<"$", "{">> \o q
            ELSE LET var_name == SubSeq(q, 1, bp - 1)
                     val == IF flat THEN to_flat_string(var(var_name))
                            ELSE to_string(var(var_name))
                 IN interpolate_loop(res1 \o val, skip(q, bp), flat)
    ELSE
        LET res1 == res \o SubSeq(s_ptr, 1, start_s - 1)
            p    == skip(s_ptr, start_s - 1)
            hits == {e \in 1..Len(escapes) : starts_with(p, escapes[e].what)}
        IN
        IF hits # {} THEN
            LET e == CHOOSE x \in hits : \A y \in hits : x <= y IN
            interpolate_loop(res1 \o escapes[e].with, skip(p, Len(escapes[e].what)), flat)
        ELSE interpolate_loop(res1 \o <<"\\">>, skip(p, 1), flat)

\* a variant that scans its own output once more
interpolate_twice(in_str, flat) ==
    interpolate_loop(<<>>, interpolate_loop(<<>>, in_str, flat), flat)
interpolate(in_str, flat) == interpolate_loop(<<>>, in_str, flat)

----------------------------------------------------------------------------
(* Operations (ops.rs) *)

FLAG_QUIET == 1
FLAG_PASS == 2

\* flags & flag == flag, for the one-bit flags above
is_flag_on(flags, flag) == (flags \div flag) % 2 = 1

\* flags ^ other on the two flag bits
\* the flags of either side, set when one of them sets them
flags_or(a, b) ==
    (IF is_flag_on(a, FLAG_QUIET) \/ is_flag_on(b, FLAG_QUIET) THEN FLAG_QUIET ELSE 0)
    + (IF is_flag_on(a, FLAG_PASS) \/ is_flag_on(b, FLAG_PASS) THEN FLAG_PASS ELSE 0)
\* sec_flags ^ flags on the two flag bits
flags_xor(a, b) ==
    (IF is_flag_on(a, FLAG_QUIET) # is_flag_on(b, FLAG_QUIET) THEN FLAG_QUIET ELSE 0)
    + (IF is_flag_on(a, FLAG_PASS) # is_flag_on(b, FLAG_PASS) THEN FLAG_PASS ELSE 0)

\* Seq
NoSeq == [k |-> "", start |-> 0, end |-> 0, step |-> 0, s |-> <<>>, ids |-> <<>>]
SeqInt(start, end, step) == [NoSeq EXCEPT !.k = "Int", !.start = start, !.end = end, !.step = step]
SeqStr(s)      == [NoSeq EXCEPT !.k = "Str", !.s = s]
SeqIdents(ids) == [NoSeq EXCEPT !.k = "Idents", !.ids = ids]
SeqExec(s)     == [NoSeq EXCEPT !.k = "Exec", !.s = s]

\* the operands of an expression
\*   i    an Int's value          s    a Str's text, a Var's name, an Exec's command
\*   ops  the operands of Not, AndExpr and Compare         c    Compare's operator
OpInt(i)    == [k |-> "Int", i |-> i, s |-> <<>>, ops |-> <<>>, c |-> ""]
OpStr(s)    == [k |-> "Str", i |-> 0, s |-> s, ops |-> <<>>, c |-> ""]
OpVar(name) == [k |-> "Var", i |-> 0, s |-> name, ops |-> <<>>, c |-> ""]
OpExec(s)   == [k |-> "Exec", i |-> 0, s |-> s, ops |-> <<>>, c |-> ""]
Not(ops)     == [k |-> "Not", i |-> 0, s |-> <<>>, ops |-> ops, c |-> ""]
AndExpr(ops) == [k |-> "AndExpr", i |-> 0, s |-> <<>>, ops |-> ops, c |-> ""]
Compare(cmp_op, ops) == [k |-> "Compare", i |-> 0, s |-> <<>>, ops |-> ops, c |-> cmp_op]

\* Op: one record shape for all statements; k is the variant
\*   name, deps  recipe name and dependencies      v     variable name
\*   vars        a recipe's formal variables       cmd   command line / message
\*   ops         condition or right-hand side      seq   the source of a `for`
\*   pass        a guard's evaluated result        line  OpItem.line: the script line
NoOp == [k |-> "", name |-> "", flags |-> 0, vars |-> <<>>, deps |-> <<>>,
         v |-> <<>>, cmd |-> <<>>, ops |-> <<>>, seq |-> NoSeq, pass |-> FALSE, line |-> 0]
Recipe(name, flags, rvars, deps) ==
    [NoOp EXCEPT !.k = "Recipe", !.name = name, !.flags = flags, !.vars = rvars, !.deps = deps]
Shell(flags, cmd)  == [NoOp EXCEPT !.k = "Shell", !.flags = flags, !.cmd = cmd]
Include(flags, path) == [NoOp EXCEPT !.k = "Include", !.flags = flags, !.cmd = path]
Error(msg)         == [NoOp EXCEPT !.k = "Error", !.cmd = msg]
Assign(name, ops)  == [NoOp EXCEPT !.k = "Assign", !.v = name, !.ops = ops]
DefAssign(name, ops) == [NoOp EXCEPT !.k = "DefAssign", !.v = name, !.ops = ops]
If(ops)            == [NoOp EXCEPT !.k = "If", !.ops = ops]
ElseIf(ops)        == [NoOp EXCEPT !.k = "ElseIf", !.ops = ops]
For(name, seq)     == [NoOp EXCEPT !.k = "For", !.v = name, !.seq = seq]
While(ops)         == [NoOp EXCEPT !.k = "While", !.ops = ops]
Else      == [NoOp EXCEPT !.k = "Else"]
StmtClose == [NoOp EXCEPT !.k = "StmtClose"]
Return    == [NoOp EXCEPT !.k = "Return"]
Break     == [NoOp EXCEPT !.k = "Break"]
Continue  == [NoOp EXCEPT !.k = "Continue"]
Comment   == [NoOp EXCEPT !.k = "Comment"]
DocComment(text)    == [NoOp EXCEPT !.k = "DocComment", !.cmd = text]
Feature(pass, text) == [NoOp EXCEPT !.k = "Feature", !.pass = pass, !.cmd = text]
OpItem(op, line)    == [op EXCEPT !.line = line]

----------------------------------------------------------------------------
(* Scripts and dead code elimination (parse.rs) *)

DisabledRecipe(name, desc, feat, line) ==
    [name |-> name, desc |-> desc, feat |-> feat, line |-> line]

\* HakuFile: the retained op stream and the descriptors of the disabled recipes
HakuFile(ops, disabled) == [ops |-> ops, disabled |-> disabled]

\* remove_dead_code's locals: skip, nesting, the DeadState ds (flattened),
\* op_list and self.disabled
DeadState ==
    [skip |-> "None", nesting |-> 0,
     pass |-> TRUE, desc |-> <<>>, fstr |-> <<>>, f_list |-> <<>>,
     next_pass |-> TRUE, next_desc |-> <<>>, next_fstr |-> <<>>, next_f_list |-> <<>>,
     op_list |-> <<>>, disabled |-> <<>>]

\* a variant that leaves the pending guard results as they are
reset_never(st) == st
reset(st) ==
    [st EXCEPT !.pass = TRUE, !.desc = <<>>, !.fstr = <<>>, !.f_list = <<>>,
               !.next_pass = TRUE, !.next_desc = <<>>, !.next_fstr = <<>>, !.next_f_list = <<>>]

\* a plain op is kept whatever is being skipped
keeps_always(st) == st.pass
\* the `_` arm: a plain op is kept when nothing is skipped and its guards pass
keeps(st) == st.skip = "None" /\ st.pass

\* a recipe after a disabled one is judged by the guards of the disabled one
next_guard_stale(st) == st.pass
\* the guards that decide about a recipe that follows a disabled one
next_guard(st) == st.next_pass

\* one iteration of remove_dead_code's loop, on the op o
dead_op(st, o) ==
    CASE o.k = "Comment" -> st
      [] o.k = "DocComment" ->
            IF st.skip = "Recipe"
            THEN [st EXCEPT !.next_desc = o.cmd, !.next_f_list = Append(@, o)]
            ELSE [st EXCEPT !.desc = o.cmd, !.f_list = Append(@, o)]
      [] o.k = "Feature" ->
            IF st.skip = "Recipe"
            THEN [st EXCEPT !.next_pass = @ /\ o.pass, !.next_f_list = Append(@, o),
                            !.next_fstr = @ \o o.cmd]
            ELSE [st EXCEPT !.pass = @ /\ o.pass, !.f_list = Append(@, o),
                            !.fstr = @ \o o.cmd]
      [] o.k = "Recipe" ->
            reset(
              IF st.skip = "Recipe" /\ ~next_guard(st)
              THEN [st EXCEPT !.disabled =
                        Append(@, DisabledRecipe(o.name, st.next_desc, st.next_fstr, o.line))]
              ELSE IF st.skip # "None" \/ st.pass
              THEN [st EXCEPT !.skip = "None",
                              !.op_list = @ \o st.f_list
                                  \o (IF st.next_desc # <<>>
                                      THEN <<OpItem(DocComment(st.next_desc), o.line)>>
                                      ELSE <<>>)
                                  \o <<o>>]
              ELSE [st EXCEPT !.disabled =
                        Append(@, DisabledRecipe(o.name, st.desc, st.fstr, o.line)),
                              !.skip = "Recipe"])
      [] o.k \in {"If", "While", "For"} ->
            reset(
              IF st.skip # "None" THEN [st EXCEPT !.nesting = @ + 1]
              ELSE IF st.pass THEN [st EXCEPT !.op_list = Append(@, o)]
              ELSE [st EXCEPT !.skip = "Command", !.nesting = 1])
      [] o.k = "StmtClose" ->
            reset(
              IF st.skip = "None"
              THEN IF st.pass THEN [st EXCEPT !.op_list = Append(@, o)] ELSE st
              ELSE IF st.skip = "Command"
              THEN [st EXCEPT !.nesting = @ - 1,
                              !.skip = IF st.nesting - 1 = 0 THEN "None" ELSE "Command"]
              ELSE st)
      [] OTHER ->
            reset(IF keeps(st) THEN [st EXCEPT !.op_list = Append(@, o)] ELSE st)

RECURSIVE dead_loop(_, _, _)
dead_loop(st, ops, i) ==
    IF i > Len(ops) THEN st ELSE dead_loop(dead_op(st, ops[i]), ops, i + 1)

\* HakuFile::load_from_str on a script whose lines parse to ops: the file
\* after remove_dead_code
remove_dead_code(ops) ==
    LET st == dead_loop(DeadState, ops, 1) IN HakuFile(st.op_list, st.disabled)

----------------------------------------------------------------------------
(* The external shell: the commands of the model's scripts and what they do *)

\* Command::status: a command line starting with "f" (`false ...`) exits non-zero,
\* every other one (`echo ...`) exits 0
shell_status_success(cmdline) == ~(cmdline # <<>> /\ cmdline[1] = "f")
\* Command::status returns Err (the shell could not be spawned) for a command
\* line starting with "n"
shell_spawns(cmdline) == ~(cmdline # <<>> /\ cmdline[1] = "n")

\* Command::output: a command `p<text>` prints <text>; other commands print nothing
shell_stdout(cmdline) ==
    IF cmdline # <<>> /\ cmdline[1] = "p" THEN Tail(cmdline) ELSE <<>>

----------------------------------------------------------------------------
(* Engine: recipes (vm.rs) *)

\* a default recipe name that is another recipe's name
\* RunOpts: verbosity does not matter to the model's scripts
RunOpts(dry_run) == [dry_run |-> dry_run, feats |-> <<>>]

MAIN_RECIPE == "main"
DEFAULT_RECIPE == "_default"

RecipeLoc(f, line) == [file |-> f, line |-> line]

RecipeDesc(name, loc, op) ==
    [name |-> name, loc |-> loc, depends |-> op.deps, flags |-> op.flags, vars |-> op.vars]

RecipeItem(name, loc, rvars, flags) ==
    [name |-> name, loc |-> loc, vars |-> rvars, flags |-> flags]

\* String's order (byte-wise) on the recipe names the model's scripts use
NameOrder == <<"_default", "a", "b", "c", "d", "e", "main", "off", "zz">>
name_rank(name) == CHOOSE i \in 1..Len(NameOrder) : NameOrder[i] = name
name_le(a, b) == name_rank(a) <= name_rank(b)

\* the descriptors of the recipes of file f, in op order, from op i on
RECURSIVE file_recipes(_, _, _)
file_recipes(fs, f, i) ==
    IF i > Len(fs[f].ops) THEN <<>>
    ELSE IF fs[f].ops[i].k = "Recipe"
         THEN <<RecipeDesc(fs[f].ops[i].name, RecipeLoc(f, i), fs[f].ops[i])>>
              \o file_recipes(fs, f, i + 1)
         ELSE file_recipes(fs, f, i + 1)

RECURSIVE all_recipes(_, _)
all_recipes(fs, f) ==
    IF f > Len(fs) THEN <<>> ELSE file_recipes(fs, f, 1) \o all_recipes(fs, f + 1)

\* slice::sort_by on the names: a stable sort
RECURSIVE insert_sorted(_, _)
insert_sorted(sorted, r) ==
    IF sorted = <<>> THEN <<r>>
    ELSE IF name_le(sorted[1].name, r.name) THEN <<sorted[1]>> \o insert_sorted(Tail(sorted), r)
    ELSE <<r>> \o sorted

RECURSIVE sort_by_name(_)
sort_by_name(list) ==
    IF list = <<>> THEN <<>>
    ELSE insert_sorted(sort_by_name(SubSeq(list, 1, Len(list) - 1)), list[Len(list)])

\* Engine.recipes after detect_recipes, which appends to what earlier calls pushed
detect_recipes(old, fs) == sort_by_name(old \o all_recipes(fs, 1))

RecipeNotFoundError == "RecipeNotFoundError"
RecipeRecursionError == "RecipeRecursionError"

find_recipe(name) ==
    IF \E i \in 1..Len(recipes) : recipes[i].name = name
    THEN [err |-> "", desc |-> recipes[CHOOSE i \in 1..Len(recipes) :
                       recipes[i].name = name /\ \A j \in 1..(i - 1) : recipes[j].name # name]]
    ELSE [err |-> RecipeNotFoundError, desc |-> <<>>]

names_of(items) == {items[i].name : i \in 1..Len(items)}

\* push_recipe: `ps.iter().any(|p| p == &dep)` on the parent argument
in_parent(parent, dep) == \E i \in 1..Len(parent) : parent[i] = dep

\* push_recipe: `fnd.iter().any(|f| f.name == dep)` on the found argument
in_found(found, dep) == dep \in names_of(found)

\* push_recipe: `let mut slist = self.push_recipe(..)?; vc.append(&mut slist);`
\* append_nested with the nested call's error dropped
append_nested_lenient(vc, r) == [err |-> "", arg |-> "", vc |-> vc \o r.vc]
\* push_item putting the recipe before its dependencies
push_item_first(vc, sec_item) == <<sec_item>> \o vc

append_nested(vc, r) ==
    IF r.err # "" THEN r ELSE [err |-> "", arg |-> "", vc |-> vc \o r.vc]

\* push_recipe: `vc.push(sec_item)` after the dependencies
push_item(vc, sec_item) == Append(vc, sec_item)

RECURSIVE push_recipe(_, _, _)
RECURSIVE push_deps(_, _, _, _, _, _)

\* the `for dep in deps` loop of push_recipe from its i-th turn on
push_deps(op, i, vc, parents, found, parent) ==
    IF i > Len(op.deps) THEN [err |-> "", arg |-> "", vc |-> vc]
    ELSE
    LET dep == op.deps[i] IN
    IF in_parent(parent, dep) THEN [err |-> RecipeRecursionError, arg |-> dep, vc |-> <<>>]
    ELSE IF in_found(found, dep) THEN [err |-> RecipeRecursionError, arg |-> dep, vc |-> <<>>]
    ELSE IF find_recipe(dep).err # "" THEN [err |-> RecipeNotFoundError, arg |-> dep, vc |-> <<>>]
    ELSE
    LET parents1 == Append(parents, op.name)
        r == append_nested(vc, push_recipe(find_recipe(dep).desc.loc, vc, parents1))
    IN  IF r.err # "" THEN r ELSE push_deps(op, i + 1, r.vc, parents1, found, parent)

push_recipe(loc, found, parent) ==
    LET op == files[loc.file].ops[loc.line] IN
    IF \E i \in 1..Len(op.deps) : op.deps[i] = op.name
    THEN [err |-> RecipeRecursionError, arg |-> op.name, vc |-> <<>>]
    ELSE
    LET r == push_deps(op, 1, <<>>, parent, found, parent) IN
    IF r.err # "" THEN r
    ELSE [err |-> "", arg |-> "",
          vc |-> push_item(r.vc, RecipeItem(op.name, loc, op.vars, op.flags))]

----------------------------------------------------------------------------
(* Engine: the interpreter's handlers (vm.rs).  A handler that changes the *)
(* condition stack or the variables returns the new ones: cs is the new    *)
(* cond_stack, sv the new pair <<recipe_vars, vars>>.                       *)

NoMatchingEndError   == "NoMatchingEndError"
StrayElseError       == "StrayElseError"
StrayElseIfError     == "StrayElseIfError"
StrayEndError        == "StrayEndError"
ForeverForError      == "ForeverForError"
ExecFailureError     == "ExecFailureError"
IncludeInRecipeError == "IncludeInRecipeError"
IncludeRecursionError == "IncludeRecursionError"
FileOpenFailure == "FileOpenFailure"
SeqError == "SeqError"
\* the panic of a failed assert!
AssertFailed == "AssertFailed"
UserError            == "UserError"
NoMatchingForWhileError == "NoMatchingForWhileError"

\* the include lines of a header: the ops before the first Recipe
header_len(ops) ==
    IF \E i \in 1..Len(ops) : ops[i].k = "Recipe"
    THEN (CHOOSE i \in 1..Len(ops) : ops[i].k = "Recipe" /\ \A j \in 1..(i - 1) : ops[j].k # "Recipe") - 1
    ELSE Len(ops)
to_include(ops) ==
    LET inc == SelectSeq(SubSeq(ops, 1, header_len(ops)), LAMBDA op : op.k = "Include")
    IN  [i \in 1..Len(inc) |-> [flags |-> inc[i].flags, path |-> interpolate(inc[i].cmd, TRUE)]]

\* an include whose failure is never passed over
swallows_never(res, flags) == FALSE
\* run_header: a failed include is passed over when its line carries PASS
swallows(res, flags) == is_flag_on(flags, FLAG_PASS)

\* Loading works on st = [files, included, recipes, err]: the engine's lists and
\* the error of the call that returned last ("" for Ok).  disk maps the paths
\* that can be opened to their parsed files.
Loaded(st, hk, path) ==
    [st EXCEPT !.files = Append(@, hk), !.included = @ \o path, !.err = ""]
Detected(st) ==
    IF st.err # "" THEN st ELSE [st EXCEPT !.recipes = detect_recipes(@, st.files)]
\* the include loop of run_header after the include at position i returned st
Continues(st, inc, i) == st.err = "" \/ swallows(st.err, inc[i].flags)

\* a variant that takes every integer range
build_seq_unchecked(seq) == ""
\* build_seq: the error of the sequence of a `for` line, "" for Ok
build_seq(seq) ==
    IF seq.k = "Int" /\ (seq.step = 0 \/ (seq.step > 0 /\ seq.start > seq.end)
                                     \/ (seq.step < 0 /\ seq.start < seq.end))
    THEN SeqError ELSE ""
\* HakuFile::load_from_str / load_from_file: process_line on each line of the
\* script, up to the first line that is not built
process_lines(ops) ==
    IF \E i \in 1..Len(ops) : ops[i].k = "For" /\ build_seq(ops[i].seq) # "" THEN SeqError ELSE ""

RECURSIVE load_from_file(_, _, _), include_loop(_, _, _, _)
load_from_file(st, disk, filepath) ==
    IF \E i \in 1..Len(st.included) : st.included[i] = filepath
    THEN [st EXCEPT !.err = IncludeRecursionError]
    ELSE IF filepath \notin DOMAIN disk THEN [st EXCEPT !.err = FileOpenFailure]
    ELSE IF process_lines(disk[filepath].ops) # "" THEN [st EXCEPT !.err = SeqError]
    ELSE Detected(include_loop(Loaded(st, disk[filepath], <<filepath>>), disk,
                               to_include(disk[filepath].ops), 1))

\* run_header from the i-th include on
include_loop(st, disk, inc, i) ==
    IF i > Len(inc) THEN [st EXCEPT !.err = ""]
    ELSE IF Continues(load_from_file(st, disk, inc[i].path), inc, i)
         THEN include_loop(load_from_file(st, disk, inc[i].path), disk, inc, i + 1)
         ELSE load_from_file(st, disk, inc[i].path)

run_header(st, disk, idx) == include_loop(st, disk, to_include(st.files[idx].ops), 1)

load_from_str(st, disk, hk) ==
    IF process_lines(hk.ops) # "" THEN [st EXCEPT !.err = SeqError]
    ELSE Detected(run_header(Loaded(st, hk, <<>>), disk, Len(st.files) + 1))

Engine == [files |-> files, included |-> included, recipes |-> recipes, err |-> ""]

\* Condition and CondItem
CIf(c) == [k |-> "If", c |-> c, var |-> <<>>, curr |-> 0, end |-> 0, step |-> 0, vals |-> <<>>,
           ops |-> <<>>]
CForInt(name, curr, end, step) ==
    [k |-> "ForInt", c |-> FALSE, var |-> name, curr |-> curr, end |-> end, step |-> step,
     vals |-> <<>>, ops |-> <<>>]
CForList(name, vals) ==
    [k |-> "ForList", c |-> FALSE, var |-> name, curr |-> 0, end |-> 0, step |-> 0,
     vals |-> vals, ops |-> <<>>]
CWhile(ops) ==
    [k |-> "While", c |-> FALSE, var |-> <<>>, curr |-> 0, end |-> 0, step |-> 0,
     vals |-> <<>>, ops |-> ops]
CondItem(line, cond) == [line |-> line, cond |-> cond]

IsOpener(op) == op.k \in {"If", "While", "For"}

RECURSIVE find_end_from(_, _, _)
find_end_from(ops, idx, nesting) ==
    IF idx > Len(ops) THEN [err |-> NoMatchingEndError, idx |-> 0]
    ELSE IF ops[idx].k = "StmtClose"
         THEN IF nesting - 1 = 0 THEN [err |-> "", idx |-> idx + 1]
              ELSE find_end_from(ops, idx + 1, nesting - 1)
    ELSE IF IsOpener(ops[idx]) THEN find_end_from(ops, idx + 1, nesting + 1)
    ELSE find_end_from(ops, idx + 1, nesting)

find_end(f, line) == find_end_from(files[f].ops, line, 1)

RECURSIVE find_else_from(_, _, _)
find_else_from(ops, idx, nesting) ==
    IF idx > Len(ops) THEN [err |-> NoMatchingEndError, is_end |-> FALSE, idx |-> 0]
    ELSE IF ops[idx].k = "StmtClose"
         THEN IF nesting - 1 = 0 THEN [err |-> "", is_end |-> TRUE, idx |-> idx + 1]
              ELSE find_else_from(ops, idx + 1, nesting - 1)
    ELSE IF IsOpener(ops[idx]) THEN find_else_from(ops, idx + 1, nesting + 1)
    ELSE IF ops[idx].k \in {"ElseIf", "Else"} /\ nesting = 1
         THEN [err |-> "", is_end |-> FALSE, idx |-> idx]
    ELSE find_else_from(ops, idx + 1, nesting)

find_else(f, line) == find_else_from(files[f].ops, line, 1)

\* exec_cmd: the command's trimmed output, or an error when the shell cannot be
\* spawned or the command exits non-zero
\* line is the interpolated command line handed to the shell
exec_line(line) ==
    IF ~shell_spawns(line) \/ ~shell_status_success(line)
    THEN [err |-> ExecFailureError, code |-> 0, stdout |-> <<>>, line |-> line]
    ELSE [err |-> "", code |-> 0, stdout |-> trim_end(shell_stdout(line)), line |-> line]

exec_cmd(cmdline) == exec_line(interpolate(cmdline, TRUE))

\* Op::Exec in exec_op: a failed command is Undefined
exec_value(r) ==
    [v |-> IF r.err # "" THEN Undefined ELSE VExec(r.code, r.stdout), sp |-> <<r.line>>]

\* exec_op with what it runs on the way: v is the value, sp the command lines
\* handed to exec_cmd, in order.  Func is not among the model's operands, so an
\* evaluation cannot fail.
\* the concatenation of the first n sequences of seqs
RECURSIVE concat(_, _)
concat(seqs, n) == IF n = 0 THEN <<>> ELSE concat(seqs, n - 1) \o seqs[n]

\* an && that evaluates every operand
and_loop_all(r) ==
    IF Len(r) = 1 THEN r[1]
    ELSE [v  |-> IF \A i \in 1..Len(r) : is_true(r[i].v) THEN VInt(1) ELSE VInt(0),
          sp |-> concat([i \in 1..Len(r) |-> r[i].sp], Len(r))]

\* the loop of exec_and_expr over the evaluated operands r: it stops at the first
\* falsy one
and_loop(r) ==
    LET falsy == {i \in 1..Len(r) : ~is_true(r[i].v)}
        last  == IF falsy = {} THEN Len(r)
                 ELSE CHOOSE i \in falsy : \A j \in falsy : i <= j
        sp    == concat([i \in 1..Len(r) |-> r[i].sp], last)
    IN  IF Len(r) = 1 THEN r[1]
        ELSE [v |-> IF falsy = {} THEN VInt(1) ELSE VInt(0), sp |-> sp]

\* r holds the evaluated operands of a Not, an AndExpr or a Compare
RECURSIVE eval(_)
eval(op) ==
    LET r == [i \in 1..Len(op.ops) |-> eval(op.ops[i])] IN
    CASE op.k = "Int"  -> [v |-> VInt(op.i), sp |-> <<>>]
      [] op.k = "Str"  -> [v |-> VStr(interpolate(op.s, FALSE)), sp |-> <<>>]
      [] op.k = "Var"  -> [v |-> var(op.s), sp |-> <<>>]
      [] op.k = "Exec" ->
            exec_value(exec_cmd(op.s))
      [] op.k = "Not"  ->
            [v |-> IF is_true(r[1].v) THEN VInt(0) ELSE VInt(1), sp |-> r[1].sp]
      [] op.k = "AndExpr" -> and_loop(r)
      [] op.k = "Compare" ->
            [v  |-> IF cmp(r[1].v, r[2].v, op.c) THEN VInt(1) ELSE VInt(0),
             sp |-> r[1].sp \o r[2].sp]

exec_and_expr(ops) == eval(AndExpr(ops))

exec_op(op) == eval(op).v

\* exec_cmd_shell: cmd is the interpolated line that is spawned, echo whether it
\* is printed first
exec_cmd_shell(flags, cmdline) ==
    LET line == interpolate(cmdline, TRUE) IN
    [err  |-> IF ~shell_spawns(line)
              THEN IF is_flag_on(flags, FLAG_PASS) THEN "" ELSE ExecFailureError
              ELSE IF ~shell_status_success(line) /\ ~is_flag_on(flags, FLAG_PASS)
                   THEN ExecFailureError ELSE "",
     cmd  |-> line,
     echo |-> ~is_flag_on(flags, FLAG_QUIET)]

\* the loop of exec_assign_generic over the evaluated operands r: a single
\* operand is stored as it is, otherwise the loop stops at the first truthy one
assign_loop(r) ==
    LET truthy == {i \in 1..Len(r) : is_true(r[i].v)}
        last   == IF truthy = {} THEN Len(r)
                  ELSE CHOOSE i \in truthy : \A j \in truthy : i <= j
    IN  IF Len(r) = 1 THEN r[1]
        ELSE [v  |-> IF truthy = {} THEN VInt(0) ELSE VInt(1),
              sp |-> concat([i \in 1..Len(r) |-> r[i].sp], last)]

assigned(name, r) == [sv |-> set_var(recipe_vars, vars, name, r.v), sp |-> r.sp]

\* a check that never looks at the variable
checks_never(chk, name) == FALSE
checks(chk, name) == chk /\ is_true(var(name))

\* exec_assign_generic: sv is the pair <<recipe_vars, vars>> after it, sp the
\* command lines it ran
exec_assign_generic(chk, name, ops) ==
    IF checks(chk, name) THEN [sv |-> <<recipe_vars, vars>>, sp |-> <<>>]
    ELSE assigned(name, assign_loop([i \in 1..Len(ops) |-> eval(ops[i])]))

exec_assign_or(name, ops) == exec_assign_generic(TRUE, name, ops)

exec_assign(name, ops) == exec_assign_generic(FALSE, name, ops)

exec_if(ops, f, idx) ==
    IF Len(ops) # 1 THEN [err |-> AssertFailed, next |-> 0, cs |-> cond_stack]
    ELSE IF is_true(exec_op(ops[1]))
    THEN [err |-> "", next |-> idx + 1, cs |-> Append(cond_stack, CondItem(idx, CIf(TRUE)))]
    ELSE LET r == find_else(f, idx + 1) IN
         IF r.err # "" THEN [err |-> r.err, next |-> 0, cs |-> cond_stack]
         ELSE [err |-> "", next |-> r.idx,
               cs |-> IF ~r.is_end THEN Append(cond_stack, CondItem(idx, CIf(FALSE)))
                      ELSE cond_stack]

Top(stack) == stack[Len(stack)]
Pop(stack) == SubSeq(stack, 1, Len(stack) - 1)

\* a variant that takes an `else` in a loop for the `else` of a true `if`
exec_else_in_loop(f, idx) ==
    IF cond_stack = <<>> THEN [err |-> StrayElseError, next |-> 0]
    ELSE IF Top(cond_stack).cond.k = "If" /\ ~Top(cond_stack).cond.c
         THEN [err |-> find_end(f, idx + 1).err, next |-> find_end(f, idx + 1).idx]
    ELSE [err |-> "", next |-> idx + 1]

exec_else(f, idx) ==
    IF cond_stack = <<>> THEN [err |-> StrayElseError, next |-> 0]
    ELSE IF Top(cond_stack).cond.k = "If"
         THEN IF Top(cond_stack).cond.c THEN [err |-> "", next |-> idx + 1]
              ELSE [err |-> find_end(f, idx + 1).err, next |-> find_end(f, idx + 1).idx]
    ELSE [err |-> StrayElseError, next |-> 0]

exec_elseif(ops, f, idx) ==
    IF cond_stack = <<>> THEN [err |-> StrayElseIfError, next |-> 0, cs |-> cond_stack]
    ELSE IF Len(ops) # 1 THEN [err |-> AssertFailed, next |-> 0, cs |-> cond_stack]
    ELSE IF Top(cond_stack).cond.k = "If"
         THEN IF ~Top(cond_stack).cond.c
              THEN [err |-> find_end(f, idx + 1).err, next |-> find_end(f, idx + 1).idx,
                    cs |-> cond_stack]
              ELSE IF is_true(exec_op(ops[1]))
                   THEN [err |-> "", next |-> idx + 1,
                         cs |-> Append(Pop(cond_stack),
                                       CondItem(Top(cond_stack).line, CIf(TRUE)))]
                   ELSE [err |-> find_else(f, idx + 1).err,
                         next |-> find_else(f, idx + 1).idx, cs |-> cond_stack]
    ELSE [err |-> StrayElseIfError, next |-> 0, cs |-> cond_stack]

\* exec_while: ok is the Ok(bool) it returns
exec_while(ops, idx) ==
    IF Len(ops) # 1 THEN [err |-> AssertFailed, ok |-> FALSE, cs |-> cond_stack]
    ELSE IF is_true(exec_op(ops[1]))
    THEN [err |-> "", ok |-> TRUE, cs |-> Append(cond_stack, CondItem(idx, CWhile(ops)))]
    ELSE [err |-> "", ok |-> FALSE, cs |-> cond_stack]

\* exec_end: next = 0 is "just continue"
exec_end ==
    IF cond_stack = <<>>
    THEN [err |-> StrayEndError, next |-> 0, cs |-> cond_stack, sv |-> <<recipe_vars, vars>>]
    ELSE
    LET op == Top(cond_stack)
        c  == op.cond
        rest == Pop(cond_stack)
    IN
    CASE c.k = "If" ->
            [err |-> "", next |-> 0, cs |-> rest, sv |-> <<recipe_vars, vars>>]
      [] c.k = "While" ->
            IF Len(c.ops) # 1
            THEN [err |-> AssertFailed, next |-> 0, cs |-> rest, sv |-> <<recipe_vars, vars>>]
            ELSE IF is_true(exec_op(c.ops[1]))
            THEN [err |-> "", next |-> op.line + 1, cs |-> cond_stack,
                  sv |-> <<recipe_vars, vars>>]
            ELSE [err |-> "", next |-> 0, cs |-> rest, sv |-> <<recipe_vars, vars>>]
      [] c.k = "ForList" ->
            IF c.vals = <<>>
            THEN [err |-> "", next |-> 0, cs |-> rest, sv |-> <<recipe_vars, vars>>]
            ELSE [err |-> "", next |-> op.line + 1,
                  cs |-> Append(rest, CondItem(op.line, CForList(c.var, Tail(c.vals)))),
                  sv |-> set_var(recipe_vars, vars, c.var, VStr(c.vals[1]))]
      [] c.k = "ForInt" ->
            LET curr == c.curr + c.step IN
            IF (c.step > 0 /\ curr >= c.end) \/ (c.step < 0 /\ curr <= c.end)
            THEN [err |-> "", next |-> 0, cs |-> rest, sv |-> <<recipe_vars, vars>>]
            ELSE [err |-> "", next |-> op.line + 1,
                  cs |-> Append(rest, CondItem(op.line, CForInt(c.var, curr, c.end, c.step))),
                  sv |-> set_var(recipe_vars, vars, c.var, VInt(curr))]

\* the `while let Some(cnd) = cond_stack.pop()` loops of exec_break and
\* exec_continue: the stack when the first frame that is not an If is popped,
\* that frame still on top
RECURSIVE pop_ifs(_)
pop_ifs(stack) ==
    IF stack = <<>> THEN stack
    ELSE IF Top(stack).cond.k = "If" THEN pop_ifs(Pop(stack))
    ELSE stack

exec_break(f) ==
    LET s == pop_ifs(cond_stack) IN
    IF s = <<>> THEN [err |-> NoMatchingForWhileError, next |-> 0, cs |-> s]
    ELSE [err |-> find_end(f, Top(s).line + 1).err,
          next |-> find_end(f, Top(s).line + 1).idx, cs |-> Pop(s)]

exec_continue(f) ==
    LET s == pop_ifs(cond_stack) IN
    IF s = <<>> THEN [err |-> NoMatchingForWhileError, next |-> 0, cs |-> s]
    ELSE LET r == find_end(f, Top(s).line + 1) IN
         IF r.err # "" THEN [err |-> r.err, next |-> 0, cs |-> Pop(s)]
         ELSE [err |-> "", next |-> r.idx - 1, cs |-> s]

\* the list of values exec_for iterates over for a Str, Idents or Exec source
for_values(seq) ==
    CASE seq.k = "Str" ->
            LET s == interpolate(seq.s, FALSE) IN
            IF find(s, "\n") # 0 THEN map_trim_end(split(trim_end(s), "\n"))
            ELSE split_ascii_whitespace(s)
      [] seq.k = "Idents" -> seq.ids
      [] seq.k = "Exec" ->
            IF exec_cmd(seq.s).err = "" /\ exec_cmd(seq.s).code = 0
            THEN map_trim_end(lines(exec_cmd(seq.s).stdout))
            ELSE <<>>

\* exec_for: ok is the Ok(bool) it returns
exec_for(name, seq, idx) ==
    LET skip_loop == [err |-> "", ok |-> FALSE, cs |-> cond_stack, sv |-> <<recipe_vars, vars>>]
    IN
    IF seq.k = "Int" THEN
        IF (seq.step > 0 /\ seq.end <= seq.start) \/ (seq.step < 0 /\ seq.end >= seq.start)
        THEN skip_loop
        ELSE IF seq.step = 0 THEN [skip_loop EXCEPT !.err = ForeverForError]
        ELSE [err |-> "", ok |-> TRUE,
              cs |-> Append(cond_stack,
                            CondItem(idx, CForInt(name, seq.start, seq.end, seq.step))),
              sv |-> set_var(recipe_vars, vars, name, VInt(seq.start))]
    ELSE
        LET v == for_values(seq) IN
        IF v = <<>> THEN skip_loop
        ELSE [err |-> "", ok |-> TRUE,
              cs |-> Append(cond_stack, CondItem(idx, CForList(name, Tail(v)))),
              sv |-> set_var(recipe_vars, vars, name, VStr(v[1]))]

\* enter_recipe: recipe_vars rv after binding the formals from formal i / free idx on
RECURSIVE trim_start_matches(_, _)
trim_start_matches(s, c) ==
    IF s # <<>> /\ s[1] = c THEN trim_start_matches(Tail(s), c) ELSE s

RECURSIVE bind_vars(_, _, _, _)
bind_vars(rv, formals, i, idx) ==
    IF i > Len(formals) THEN rv
    ELSE IF starts_with(formals[i], <<"+">>)
         THEN set_recipe_var(rv, vars, trim_start_matches(formals[i], "+"),
                             VList(SubSeq(free, idx, Len(free))))[1]
    ELSE LET rv1 == set_recipe_var(rv, vars, formals[i], VStr(free[idx]))[1] IN
         IF idx + 1 > Len(free) THEN rv1 ELSE bind_vars(rv1, formals, i + 1, idx + 1)

enter_recipe(rv, recipe) ==
    IF recipe.vars = <<>> \/ free = <<>> THEN rv
    ELSE bind_vars(rv, recipe.vars, 1, 1)

----------------------------------------------------------------------------
(* The scripts the engine is run on *)

RecipeNames == <<"a", "b", "c", "d", "e">>
MissingName == "zz"
LoopVar == <<"i">>

NoDeps(name, flags, body) == <<Recipe(name, flags, <<>>, <<>>)>> \o body
Script(ops) == HakuFile(ops, <<>>)
\* what the caller has: scripts to hand to load_from_str, paths to hand to
\* load_from_file, the files on disk by path, the recipe names it may run, the
\* lists of free arguments it may give
NoDisk == <<>>
OnDisk(disk, loads, run) ==
    [scripts |-> <<>>, loads |-> loads, disk |-> disk, run |-> run, args |-> {}]
Scenario(scripts, run) ==
    [scripts |-> scripts, loads |-> <<>>, disk |-> NoDisk, run |-> run, args |-> {}]
WithArgs(sc, args) == [sc EXCEPT !.args = args]

\* dependency scripts: NRecipes recipes, at most MaxEdges dependency names in
\* all, each the name of a recipe or a name no recipe has; the caller runs "a"
DepNames == {RecipeNames[i] : i \in 1..NRecipes} \cup {MissingName}
EdgeLists ==
    UNION {{e \in [1..k -> (1..NRecipes) \X DepNames] :
               \A i \in 1..(k - 1) : e[i][1] <= e[i + 1][1]} : k \in 0..MaxEdges}
deps_of(e, i) ==
    LET own == SelectSeq(e, LAMBDA x : x[1] = i) IN [j \in 1..Len(own) |-> own[j][2]]
dep_script(e) ==
    [j \in 1..(2 * NRecipes) |->
        IF j % 2 = 1 THEN Recipe(RecipeNames[(j + 1) \div 2], 0, <<>>, deps_of(e, (j + 1) \div 2))
        ELSE Shell(0, <<"r", Digit(j \div 2)>>)]
DepScenarios == {Scenario(<<Script(dep_script(e))>>, {"a"}) : e \in EdgeLists}

\* a program placed in the header of a script or in the body of its recipe main
InHeader(prog) == Scenario(<<Script(prog \o NoDeps("main", 0, <<Shell(0, <<"m">>)>>))>>, {"main"})
InBody(prog)   == Scenario(<<Script(NoDeps("main", 0, prog))>>, {"main"})
Placed(progs)  == {InHeader(p) : p \in progs} \cup {InBody(p) : p \in progs}

\* conditionals: if c1 / b1 / elseif c2 / b2 ... [else / el] / end / z
if_program(conds, has_else) ==
    LET n == Len(conds) IN
    [j \in 1..(2 * n) |->
        IF j = 1 THEN If(<<OpInt(conds[1])>>)
        ELSE IF j % 2 = 1 THEN ElseIf(<<OpInt(conds[(j + 1) \div 2])>>)
        ELSE Shell(0, <<"b", Digit(j \div 2)>>)]
    \o (IF has_else THEN <<Else, Shell(0, <<"e", "l">>)>> ELSE <<>>)
    \o <<StmtClose, Shell(0, <<"z">>)>>
IfPrograms ==
    {if_program(conds, has_else) :
        conds \in UNION {[1..(k + 1) -> 0..1] : k \in 0..MaxElseIf}, has_else \in BOOLEAN}

\* loops: for i in <source> / <body> / end / z
Steps == {-2, -1, 1, 2}
IntSeqs ==
    {q \in {SeqInt(s, e, st) : s \in 0..MaxInt, e \in 0..MaxInt, st \in Steps} :
        ~((q.step > 0 /\ q.start > q.end) \/ (q.step < 0 /\ q.start < q.end))}
Strs == UNION {[1..k -> {"a", " ", "\n"}] : k \in 0..MaxLen}
IdentLists == UNION {[1..k -> {<<"a">>, <<"b">>}] : k \in 1..MaxLen}
ListSeqs ==
    {SeqStr(s) : s \in Strs} \cup {SeqExec(<<"p">> \o s) : s \in Strs}
    \cup {SeqExec(<<"f">>)} \cup {SeqIdents(ids) : ids \in IdentLists}
ShowVar(c) == Shell(0, <<c, "$", "{">> \o LoopVar \o <<"}">>)
LoopBodies ==
    {<<ShowVar("e")>>,
     <<ShowVar("e"), Assign(LoopVar, <<OpInt(7)>>)>>}
    \cup {<<ShowVar("e"), If(<<OpInt(c)>>), ShowVar("t"), StmtClose>> : c \in 0..1}
    \cup {<<ShowVar("e"), If(<<OpInt(c)>>), ShowVar("t"), Else, ShowVar("u"), StmtClose>> :
             c \in 0..1}
loop_program(seq, body) == <<For(LoopVar, seq)>> \o body \o <<StmtClose, Shell(0, <<"z">>)>>
LoopPrograms == {loop_program(seq, body) : seq \in IntSeqs \cup ListSeqs, body \in LoopBodies}

\* while loops: w = a / n = b / while $w / w = $n / n = 0 / e / <tail> / end / z
\* runs no, one or two iterations
WhileVar == <<"w">>
NextVar  == <<"n">>
InnerVar == <<"j">>
Jumps == {Break, Continue}
JumpTails ==
    {<<j, Shell(0, <<"x">>)>> : j \in Jumps}
    \cup {<<If(<<OpInt(c)>>), j, StmtClose, Shell(0, <<"x">>)>> : c \in 0..1, j \in Jumps}
ElseTails ==
    {<<If(<<OpInt(c)>>), Shell(0, <<"t">>), Else, Shell(0, <<"u">>), StmtClose>> : c \in 0..1}
while_open(a, b) ==
    <<Assign(WhileVar, <<OpInt(a)>>), Assign(NextVar, <<OpInt(b)>>), While(<<OpVar(WhileVar)>>),
      Assign(WhileVar, <<OpVar(NextVar)>>), Assign(NextVar, <<OpInt(0)>>)>>
while_program(a, b, tail) ==
    while_open(a, b) \o <<Shell(0, <<"e">>)>> \o tail \o <<StmtClose, Shell(0, <<"z">>)>>
WhilePrograms ==
    {while_program(ab[1], ab[2], tail) :
        ab \in {<<0, 0>>, <<1, 0>>, <<1, 1>>}, tail \in {<<>>} \cup JumpTails \cup ElseTails}

\* break and continue in a for loop, in a loop within a loop, and in no loop
JumpSeqs == {SeqInt(0, MaxInt, 1), SeqIdents(<<<<"a">>, <<"b">>>>)}
ForJumpPrograms ==
    {loop_program(seq, <<ShowVar("e")>> \o tail) : seq \in JumpSeqs, tail \in JumpTails}
InnerLoops ==
    {<<For(InnerVar, SeqIdents(<<<<"a">>, <<"b">>>>))>> \o body \o <<StmtClose>> :
        body \in {<<Shell(0, <<"i">>)>>, <<Shell(0, <<"i">>), Break, Shell(0, <<"y">>)>>,
                  <<Shell(0, <<"i">>), Continue, Shell(0, <<"y">>)>>} \cup ElseTails}
NestedPrograms ==
    {open \o inner \o after \o <<StmtClose, Shell(0, <<"z">>)>> :
        open \in {<<For(LoopVar, SeqInt(0, MaxInt, 1))>>, while_open(1, 1)},
        inner \in InnerLoops,
        after \in {<<Shell(0, <<"x">>)>>} \cup {<<j, Shell(0, <<"x">>)>> : j \in Jumps}}
StrayJumpPrograms == {tail \o <<Shell(0, <<"z">>)>> : tail \in JumpTails}
JumpPrograms == WhilePrograms \cup ForJumpPrograms \cup NestedPrograms \cup StrayJumpPrograms

\* several files: each a header and possibly a recipe; the caller may run any name
Headers ==
    {<<>>,
     <<Shell(0, <<"h">>), Return, Shell(0, <<"x">>)>>,
     <<Error(<<"e">>)>>,
     <<Shell(0, <<"f">>)>>,
     <<Shell(FLAG_PASS, <<"f">>), Shell(0, <<"h">>)>>}
RecipeParts ==
    {HakuFile(<<>>, <<DisabledRecipe("off", <<>>, <<"#">>, 0)>>),
     HakuFile(NoDeps("main", 0, <<Shell(0, <<"m">>)>>), <<>>),
     HakuFile(NoDeps("_default", 0, <<Shell(0, <<"d">>)>>), <<>>)}
HeaderFiles == {HakuFile(h \o r.ops, r.disabled) : h \in Headers, r \in RecipeParts}
HeaderScenarios ==
    {Scenario(fs, {"", "main", "off", MissingName}) :
        fs \in UNION {[1..k -> HeaderFiles] : k \in 1..MaxFiles}}

\* bodies that fail: a runs after its dependencies b and c
Bodies ==
    {<<Shell(0, <<"o">>)>>,
     <<Shell(0, <<"f">>), Shell(0, <<"o">>)>>,
     <<Shell(FLAG_PASS, <<"f">>), Shell(0, <<"o">>)>>,
     <<Shell(0, <<"n">>), Shell(0, <<"o">>)>>,
     <<Shell(FLAG_PASS, <<"n">>), Shell(0, <<"o">>)>>,
     <<Shell(FLAG_QUIET, <<"o">>)>>,
     <<Error(<<"e">>), Shell(0, <<"o">>)>>,
     <<Include(0, <<"x">>), Shell(0, <<"o">>)>>,
     <<Shell(0, <<"o">>), Return, Shell(0, <<"x">>)>>}
BodyScenarios ==
    {Scenario(<<Script(<<Recipe("a", 0, <<>>, <<"b", "c">>), Shell(0, <<"r", "1">>)>>
                       \o NoDeps("b", fl, body)
                       \o NoDeps("c", 0, body2))>>, {"a"}) :
        fl \in {0, FLAG_PASS, FLAG_QUIET}, body \in Bodies,
        body2 \in {<<Shell(0, <<"o">>)>>, <<Error(<<"e">>)>>}}

\* assignments: a = <terms joined with && and ||>, at most MaxTerms terms
AssignVar == <<"a">>
Terms == {OpInt(0), OpInt(10), OpStr(<<"x">>), OpStr(<<>>),
          OpExec(<<"p", "1">>), OpExec(<<"f", "1">>)}
\* build_expr: the terms t with an || after each position in ors, && elsewhere
RECURSIVE build_from(_, _, _, _, _)
build_from(t, ors, i, group, v) ==
    IF i > Len(t) THEN v
    ELSE IF i \in ors \/ i = Len(t)
         THEN build_from(t, ors, i + 1, <<>>, Append(v, AndExpr(Append(group, t[i]))))
         ELSE build_from(t, ors, i + 1, Append(group, t[i]), v)
Exprs ==
    UNION {{build_from(t, ors, 1, <<>>, <<>>) : t \in [1..n -> Terms], ors \in SUBSET (1..(n - 1))} :
              n \in 1..MaxTerms}
AssignPrograms == {<<Assign(AssignVar, e), Shell(0, <<"z">>)>> : e \in Exprs}

\* default assignments: [a = t0 /] a ?= e1 / a ?= e2 / a ?= e1 / a ?= e2
DefTerms == {OpInt(0), OpInt(10), OpInt(20), OpExec(<<"p", "1">>), OpExec(<<"f", "1">>)}
DefExprs ==
    {<<AndExpr(<<t>>)>> : t \in DefTerms}
    \cup {<<AndExpr(<<OpExec(<<"p", "1">>), OpInt(0)>>)>>,
          <<AndExpr(<<OpInt(0)>>), AndExpr(<<OpExec(<<"p", "2">>)>>)>>}
Priors == {<<>>} \cup {<<Assign(AssignVar, <<AndExpr(<<t>>)>>)>> : t \in {OpInt(0), OpInt(20)}}
def_program(prior, e1, e2) ==
    prior \o <<DefAssign(AssignVar, e1), DefAssign(AssignVar, e2),
               DefAssign(AssignVar, e1), DefAssign(AssignVar, e2)>>
DefAssignPrograms ==
    {def_program(prior, e1, e2) : prior \in Priors, e1 \in DefExprs, e2 \in DefExprs}

\* files on disk that include each other: the file at IncPaths[i] holds the
\* include lines e gives it, then the recipe IncRecipes[i]
IncPaths == <<<<"r">>, <<"x">>, <<"y">>>>
IncRecipes == <<"a", "b", "c">>
MissingPath == <<"m">>
IncLines == (1..Len(IncPaths)) \X {0, FLAG_PASS} \X (1..Len(IncPaths))
IncludeLists ==
    UNION {{e \in [1..k -> IncLines] : \A i \in 1..(k - 1) : e[i][1] <= e[i + 1][1]} :
              k \in 0..MaxIncludes}
includes_of(e, i) ==
    LET own == SelectSeq(e, LAMBDA x : x[1] = i)
    IN  [j \in 1..Len(own) |-> Include(own[j][2], IncPaths[own[j][3]])]
path_index(p) == CHOOSE i \in 1..Len(IncPaths) : IncPaths[i] = p
inc_disk(e) ==
    [p \in {IncPaths[i] : i \in 1..Len(IncPaths)} |->
        Script(includes_of(e, path_index(p))
               \o NoDeps(IncRecipes[path_index(p)], 0, <<Shell(0, <<"o">>)>>))]
IncludeScenarios == {OnDisk(inc_disk(e), <<IncPaths[1]>>, {"a"}) : e \in IncludeLists}
\* a script in memory that includes a file on disk or a file that is not there
StrIncludeScenarios ==
    {[scripts |-> <<Script(<<Include(fl, p)>> \o NoDeps("main", 0, <<Shell(0, <<"m">>)>>))>>,
      loads |-> <<>>, disk |-> inc_disk(e), run |-> {"main"}, args |-> {}] :
        fl \in {0, FLAG_PASS}, p \in {IncPaths[1], MissingPath},
        e \in {l \in IncludeLists : Len(l) <= 1}}

\* recipes with formal arguments: `a x y +r: b` and `b ...`, run with free
\* arguments or without
FormalLists ==
    {<<>>, <<<<"x">>>>, <<<<"x">>, <<"y">>>>, <<<<"+", "r">>>>, <<<<"x">>, <<"+", "r">>>>,
     <<<<"x">>, <<"y">>, <<"+", "r">>>>, <<<<"+", "r">>, <<"x">>>>}
FreeArgs == <<<<"p">>, <<"q">>, <<"s">>, <<"t">>>>
FreeArgLists == {SubSeq(FreeArgs, 1, k) : k \in 1..MaxArgs}
ArgScenarios ==
    {WithArgs(Scenario(<<Script(<<Recipe("a", 0, fa, <<"b">>), Shell(0, <<"o">>),
                                 Recipe("b", 0, fb, <<>>), Shell(0, <<"o">>)>>)>>, {"a"}),
              FreeArgLists) : fa \in FormalLists, fb \in FormalLists}

\* an opener without its end: <opener> / t [ / if c / u / end ] [ / z ]
Openers ==
    {If(<<OpInt(c)>>) : c \in 0..1} \cup {While(<<OpInt(c)>>) : c \in 0..1}
    \cup {For(LoopVar, seq) : seq \in IntSeqs \cup {SeqIdents(ids) : ids \in IdentLists}
                                        \cup {SeqStr(<<>>), SeqExec(<<"f">>)}}
UnmatchedPrograms ==
    {<<o, Shell(0, <<"t">>)>> \o inner \o tail :
        o \in Openers,
        inner \in {<<>>} \cup {<<If(<<OpInt(c)>>), Shell(0, <<"u">>), StmtClose>> : c \in 0..1},
        tail \in {<<>>, <<Shell(0, <<"z">>)>>}}
\* an end, else or elseif that belongs to nothing or stands in a loop
Strays == {StmtClose, Else} \cup {ElseIf(<<OpInt(c)>>) : c \in 0..1}
StrayPrograms ==
    {pre \o <<st, Shell(0, <<"x">>)>> \o post :
        pre \in {<<>>, <<If(<<OpInt(1)>>), Shell(0, <<"t">>), StmtClose>>,
                 <<For(LoopVar, SeqIdents(<<<<"a">>, <<"b">>>>))>>,
                 <<For(LoopVar, SeqInt(0, 2, 1))>>, <<While(<<OpInt(1)>>)>>},
        st \in Strays, post \in {<<>>, <<StmtClose>>}}

\* loops over integer ranges that build_seq does not take
BadIntSeqs ==
    {q \in {SeqInt(st, e, sp) : st \in 0..MaxInt, e \in 0..MaxInt, sp \in Steps \cup {0}} :
        q \notin IntSeqs}
BadForPrograms ==
    {pre \o loop_program(seq, <<ShowVar("e")>>) :
        pre \in {<<>>, <<Shell(0, <<"s">>)>>}, seq \in BadIntSeqs}

\* build_condition: one AndExpr for each run of terms that `||` separates
build_condition(t, ors) == build_from(t, ors, 1, <<>>, <<>>)
\* conditions of two terms joined with && or ||, in an if, an elseif and a while
CondPairs == {build_condition(t, ors) : t \in [1..2 -> {OpInt(0), OpInt(1)}], ors \in SUBSET {1}}
CondPrograms ==
    {<<If(c), Shell(0, <<"t">>), StmtClose, Shell(0, <<"z">>)>> : c \in CondPairs}
    \cup {<<While(c), Shell(0, <<"t">>), Break, StmtClose, Shell(0, <<"z">>)>> : c \in CondPairs}
    \cup {<<If(<<OpInt(i)>>), Shell(0, <<"t">>), ElseIf(c), Shell(0, <<"u">>), StmtClose,
            Shell(0, <<"z">>)>> : i \in 0..1, c \in CondPairs}

\* two recipes, the first with an opener that has no end of its own and the
\* second with an end: a: <opener> / t [ / break ]   b: u / end / v
CrossOpeners ==
    {If(<<OpInt(c)>>) : c \in 0..1} \cup {While(<<OpInt(c)>>) : c \in 0..1}
    \cup {For(LoopVar, SeqStr(<<>>)), For(LoopVar, SeqInt(0, 1, 1))}
CrossScenarios ==
    {Scenario(<<Script(NoDeps("a", 0, <<o, Shell(0, <<"t">>)>> \o tail)
                       \o NoDeps("b", 0, <<Shell(0, <<"u">>), StmtClose, Shell(0, <<"v">>)>>))>>,
              {"a", "b"}) :
        o \in CrossOpeners, tail \in {<<>>, <<Break>>}}

Scenarios ==
    Placed(CondPrograms) \cup CrossScenarios \cup Placed(BadForPrograms) \cup Placed(UnmatchedPrograms) \cup Placed(StrayPrograms) \cup ArgScenarios \cup IncludeScenarios \cup StrIncludeScenarios \cup DepScenarios \cup Placed(IfPrograms) \cup Placed(LoopPrograms) \cup Placed(JumpPrograms)
    \cup HeaderScenarios \cup BodyScenarios
    \cup Placed(AssignPrograms) \cup Placed(DefAssignPrograms)

----------------------------------------------------------------------------
(* The engine as a state machine *)

Ev(ev, f, line, name, cmd, echo) ==
    [ev |-> ev, file |-> f, line |-> line, name |-> name, cmd |-> cmd, echo |-> echo]
EvRun(name)      == Ev("run", 0, 0, name, <<>>, FALSE)
EvHeader(f)      == Ev("header", f, 0, "", <<>>, FALSE)
EvEnter(item)    == Ev("enter", item.loc.file, item.loc.line, item.name, <<>>, FALSE)
EvLeave(item)    == Ev("leave", item.loc.file, item.loc.line, item.name, <<>>, FALSE)
EvShell(f, line, cmd, echo) == Ev("shell", f, line, "", cmd, echo)
\* the commands an expression of the op at line ran
EvExecs(f, line, sp) == [i \in 1..Len(sp) |-> Ev("exec", f, line, "", sp[i], FALSE)]

\* what run_recipe returned; file and line are Engine.file_idx and Engine.real_line
Res(kind, arg, f, line) == [kind |-> kind, arg |-> arg, file |-> f, line |-> line]
NoSec == [some |-> FALSE, loc |-> RecipeLoc(0, 0)]

\* Engine::new
EngineNew ==
    /\ files = <<>>
    /\ included = <<>>
    /\ recipes = <<>>
    /\ vars = <<>>
    /\ recipe_vars = <<>>
    /\ free = <<>>
    /\ env = <<>>
    /\ cond_stack = <<>>
    /\ phase = "load"
    /\ init_i = 0
    /\ file = 0
    /\ pc = 0
    /\ sec_res = NoSec
    /\ sec = <<>>
    /\ sidx = 0
    /\ result = Res("none", "", 0, 0)
    /\ trace = <<>>

\* the scripts that are also run by an engine created with dry_run set
DryScenarios == BodyScenarios \cup Placed(IfPrograms)

Init ==
    /\ pending \in Scenarios
    /\ opts \in {RunOpts(d) : d \in IF pending \in DryScenarios THEN BOOLEAN ELSE {FALSE}}
    /\ EngineNew

\* Engine::load_from_str on the caller's next script (run_header finds no
\* include in it)
\* the caller's load returned st
LoadReturns(st, left) ==
    /\ phase = "load"
    /\ files' = st.files
    /\ included' = st.included
    /\ recipes' = st.recipes
    /\ pending' = left
    /\ IF st.err # ""
       THEN phase' = "done" /\ result' = Res(st.err, "", 0, 0)
       ELSE /\ phase' = IF left.scripts = <<>> /\ left.loads = <<>> THEN "idle" ELSE "load"
            /\ UNCHANGED result
    /\ UNCHANGED <<vars, recipe_vars, free, env, opts, cond_stack, init_i, file, pc, sec_res, sec,
                   sidx, trace>>

LoadFromStr ==
    /\ pending.scripts # <<>>
    /\ LoadReturns(load_from_str(Engine, pending.disk, Head(pending.scripts)),
             [pending EXCEPT !.scripts = Tail(@)])

LoadFromFile ==
    /\ pending.loads # <<>>
    /\ LoadReturns(load_from_file(Engine, pending.disk, Head(pending.loads)),
             [pending EXCEPT !.loads = Tail(@)])

\* exec_init going through the files in load order
exec_init_file_forward(cnt, i) == i + 1
\* exec_init: the file whose header iteration i of the loop runs
exec_init_file(cnt, i) == cnt - i

\* run_recipe up to the start of exec_init's first exec_file_init
\* Engine::set_free_args, called before the recipe is run
SetFreeArgs(args) ==
    /\ phase = "idle"
    /\ files # <<>>
    /\ free = <<>>
    /\ free' = args
    /\ UNCHANGED <<pending, files, recipes, vars, recipe_vars, env, opts, included, cond_stack, phase,
                   init_i, file, pc, sec_res, sec, sidx, result, trace>>

RunRecipe(name) ==
    /\ phase = "idle"
    /\ files # <<>>
    /\ LET found == find_recipe(IF name = "" THEN DEFAULT_RECIPE ELSE name) IN
       IF name # "" /\ found.err # ""
       THEN /\ phase' = "done"
            /\ result' = Res(found.err, name, 0, 0)
            /\ trace' = Append(trace, EvRun(name))
            /\ UNCHANGED <<sec_res, init_i, file, pc>>
       ELSE /\ sec_res' = IF found.err = "" THEN [some |-> TRUE, loc |-> found.desc.loc]
                          ELSE NoSec
            /\ phase' = "init"
            /\ init_i' = 0
            /\ file' = exec_init_file(Len(files), 0)
            /\ pc' = 1
            /\ trace' = trace \o <<EvRun(name), EvHeader(exec_init_file(Len(files), 0))>>
            /\ UNCHANGED result
    /\ UNCHANGED <<pending, files, recipes, vars, recipe_vars, free, env, opts, included, cond_stack, sec, sidx>>

\* the dispatch loops of exec_file_init (phase init) and exec_from (phase body)
Running == phase \in {"init", "body"}
AtEnd == pc > Len(files[file].ops)
CurOp == files[file].ops[pc]
At(k) == Running /\ ~AtEnd /\ CurOp.k = k
\* the loop is over: the ops ran out, or a Recipe or Return op is reached
Returning == IF AtEnd THEN TRUE ELSE CurOp.k \in {"Recipe", "Return"}

\* one iteration of a loop that drops the handler's error and goes on
StepOn(err, next, cs, sv, tr) ==
    /\ cond_stack' = cs
    /\ recipe_vars' = sv[1]
    /\ vars' = sv[2]
    /\ trace' = tr
    /\ pc' = IF err # "" THEN pc + 1 ELSE next
    /\ UNCHANGED <<pending, files, recipes, free, env, opts, included, phase, init_i, file, sec_res, sec,
                   sidx, result>>

\* one iteration of the loop: the handler's effects, then the jump or the error
Step(err, next, cs, sv, tr) ==
    /\ cond_stack' = cs
    /\ recipe_vars' = sv[1]
    /\ vars' = sv[2]
    /\ trace' = tr
    /\ IF err # ""
       THEN phase' = "done" /\ result' = Res(err, "", file, pc) /\ pc' = pc
       ELSE pc' = next /\ UNCHANGED <<phase, result>>
    /\ UNCHANGED <<pending, files, recipes, free, env, opts, included, init_i, file, sec_res, sec, sidx>>

Same == <<recipe_vars, vars>>

ExecShell ==
    /\ At("Shell")
    /\ LET cmd_flags == IF phase = "body" THEN flags_xor(sec[sidx].flags, CurOp.flags)
                        ELSE CurOp.flags
           r == exec_cmd_shell(cmd_flags, CurOp.cmd)
       IN Step(r.err, pc + 1, cond_stack, Same,
               Append(trace, EvShell(file, pc, r.cmd, r.echo)))

\* the step of an assignment with result r
StepAssign(r) == Step("", pc + 1, cond_stack, r.sv, trace \o EvExecs(file, pc, r.sp))

ExecAssign ==
    /\ At("Assign")
    /\ StepAssign(exec_assign(CurOp.v, CurOp.ops))

ExecDefAssign ==
    /\ At("DefAssign")
    /\ StepAssign(exec_assign_or(CurOp.v, CurOp.ops))

ExecError ==
    /\ At("Error")
    /\ Step(UserError, pc, cond_stack, Same, trace)

ExecInclude ==
    /\ At("Include")
    /\ Step(IF phase = "body" THEN IncludeInRecipeError ELSE "", pc + 1, cond_stack, Same, trace)

ExecIf ==
    /\ At("If")
    /\ LET r == exec_if(CurOp.ops, file, pc) IN Step(r.err, r.next, r.cs, Same, trace)

ExecElse ==
    /\ At("Else")
    /\ LET r == exec_else(file, pc) IN Step(r.err, r.next, cond_stack, Same, trace)

ExecElseIf ==
    /\ At("ElseIf")
    /\ LET r == exec_elseif(CurOp.ops, file, pc) IN Step(r.err, r.next, r.cs, Same, trace)

ExecStmtClose ==
    /\ At("StmtClose")
    /\ LET r == exec_end IN
       Step(r.err, IF r.next = 0 THEN pc + 1 ELSE r.next, r.cs, r.sv, trace)

ExecFor ==
    /\ At("For")
    /\ LET r == exec_for(CurOp.v, CurOp.seq, pc) IN
       IF r.err # "" THEN Step(r.err, pc, r.cs, r.sv, trace)
       ELSE IF r.ok THEN Step("", pc + 1, r.cs, r.sv, trace)
       ELSE Step(find_end(file, pc + 1).err, find_end(file, pc + 1).idx, r.cs, r.sv, trace)

ExecWhile ==
    /\ At("While")
    /\ LET r == exec_while(CurOp.ops, pc) IN
       IF r.err # "" THEN Step(r.err, pc, r.cs, Same, trace)
       ELSE IF r.ok THEN Step("", pc + 1, r.cs, Same, trace)
       ELSE Step(find_end(file, pc + 1).err, find_end(file, pc + 1).idx, r.cs, Same, trace)

ExecBreak ==
    /\ At("Break")
    /\ LET r == exec_break(file) IN Step(r.err, r.next, r.cs, Same, trace)

ExecContinue ==
    /\ At("Continue")
    /\ LET r == exec_continue(file) IN Step(r.err, r.next, r.cs, Same, trace)

\* exec_file_init returns Ok: exec_init goes on to the file loaded before, and
\* after the last one run_recipe goes on to exec_recipe or returns
ExecFileInitReturn ==
    /\ phase = "init"
    /\ Returning
    /\ IF init_i + 1 < Len(files)
       THEN /\ init_i' = init_i + 1
            /\ file' = exec_init_file(Len(files), init_i + 1)
            /\ pc' = 1
            /\ trace' = Append(trace, EvHeader(exec_init_file(Len(files), init_i + 1)))
            /\ UNCHANGED <<phase, result>>
       ELSE /\ phase' = IF sec_res.some THEN "resolve" ELSE "done"
            /\ result' = IF sec_res.some THEN result ELSE Res("Ok", "", 0, 0)
            /\ UNCHANGED <<init_i, file, pc, trace>>
    /\ UNCHANGED <<pending, files, recipes, vars, recipe_vars, free, env, opts, included, cond_stack,
                   sec_res, sec, sidx>>

\* exec_recipe up to the start of the first exec_from
ExecRecipe ==
    /\ phase = "resolve"
    /\ LET r == push_recipe(sec_res.loc, <<>>, <<>>) IN
       IF r.err # ""
       THEN /\ phase' = "done"
            /\ result' = Res(r.err, r.arg, sec_res.loc.file, sec_res.loc.line)
            /\ UNCHANGED <<sec, sidx, file, pc, recipe_vars, trace>>
       ELSE /\ sec' = r.vc
            /\ sidx' = 1
            /\ recipe_vars' = enter_recipe(recipe_vars, r.vc[1])
            /\ phase' = "body"
            /\ file' = r.vc[1].loc.file
            /\ pc' = r.vc[1].loc.line + 1
            /\ trace' = Append(trace, EvEnter(r.vc[1]))
            /\ UNCHANGED result
    /\ UNCHANGED <<pending, files, recipes, vars, free, env, opts, included, cond_stack, init_i, sec_res>>

\* exec_from returns Ok: leave_recipe, then the next recipe of sec or the end
ExecFromReturn ==
    /\ phase = "body"
    /\ Returning
    /\ cond_stack' = <<>>
    /\ IF sidx + 1 <= Len(sec)
       THEN /\ sidx' = sidx + 1
            /\ recipe_vars' = enter_recipe(<<>>, sec[sidx + 1])
            /\ file' = sec[sidx + 1].loc.file
            /\ pc' = sec[sidx + 1].loc.line + 1
            /\ trace' = trace \o <<EvLeave(sec[sidx]), EvEnter(sec[sidx + 1])>>
            /\ UNCHANGED <<phase, result>>
       ELSE /\ phase' = "done"
            /\ result' = Res("Ok", "", 0, 0)
            /\ recipe_vars' = <<>>
            /\ trace' = Append(trace, EvLeave(sec[sidx]))
            /\ UNCHANGED <<sidx, file, pc>>
    /\ UNCHANGED <<pending, files, recipes, vars, free, env, opts, included, init_i, sec_res, sec>>

Next ==
    \/ LoadFromStr
    \/ LoadFromFile
    \/ \E args \in pending.args : SetFreeArgs(args)
    \/ \E name \in pending.run : RunRecipe(name)
    \/ ExecFileInitReturn
    \/ ExecRecipe
    \/ ExecFromReturn
    \/ ExecShell
    \/ ExecAssign
    \/ ExecDefAssign
    \/ ExecError
    \/ ExecInclude
    \/ ExecIf
    \/ ExecElse
    \/ ExecElseIf
    \/ ExecStmtClose
    \/ ExecFor
    \/ ExecWhile
    \/ ExecBreak
    \/ ExecContinue

Spec == Init /\ [][Next]_vars_all

----------------------------------------------------------------------------
(* Loading scripts that have guards: dead code elimination at work *)

\* most lines of a generated script, a line being an op with what is written
\* right before it
MaxLines == 3

GuardT == Feature(TRUE, <<"t">>)
GuardF == Feature(FALSE, <<"f">>)
Doc    == DocComment(<<"d">>)
Prefixes == {<<>>, <<GuardT>>, <<GuardF>>, <<Doc>>, <<Doc, GuardF, Comment>>}
GuardedLines ==
    {pre \o <<op>> : pre \in Prefixes,
                     op \in {Shell(0, <<"s">>), If(<<OpInt(1)>>), StmtClose,
                             Recipe("", 0, <<>>, <<>>)}}
RECURSIVE Flatten(_)
Flatten(seqs) == IF seqs = <<>> THEN <<>> ELSE Head(seqs) \o Flatten(Tail(seqs))
\* what process_line made of the script: op i is on line i, and the recipe on
\* line i has a name of its own
Parsed(ops) ==
    [i \in 1..Len(ops) |->
        OpItem(IF ops[i].k = "Recipe"
               THEN [ops[i] EXCEPT !.name = RecipeNames[((i - 1) % Len(RecipeNames)) + 1]]
               ELSE ops[i], i)]
Sources ==
    {Parsed(Flatten(ls)) : ls \in UNION {[1..k -> GuardedLines] : k \in 0..MaxLines}}

\* scripts of two guarded constructs, blocks closed and nested, and what follows
BlockGuards == {<<>>, <<GuardF>>, <<GuardT>>, <<GuardT, GuardF>>, <<Doc, GuardF, Comment>>}
Blocks ==
    {<<Shell(0, <<"s">>)>>,
     <<If(<<OpInt(1)>>), Shell(0, <<"t">>), StmtClose>>,
     <<If(<<OpInt(0)>>), Shell(0, <<"t">>), Else, Shell(0, <<"u">>), StmtClose>>,
     <<For(LoopVar, SeqInt(0, 2, 1)), GuardF, Shell(0, <<"t">>), StmtClose>>,
     <<While(<<OpInt(0)>>), If(<<OpInt(1)>>), Shell(0, <<"t">>), StmtClose, Shell(0, <<"u">>),
       StmtClose>>,
     <<If(<<OpInt(1)>>), GuardF, If(<<OpInt(1)>>), Shell(0, <<"t">>), StmtClose,
       Shell(0, <<"u">>), StmtClose>>}
BlockTails == {<<>>, <<Shell(0, <<"z">>)>>, <<Recipe("", 0, <<>>, <<>>), Shell(0, <<"z">>)>>}
BlockSources ==
    {Parsed(g1 \o b1 \o g2 \o b2 \o tail) :
        g1 \in BlockGuards, b1 \in Blocks, g2 \in BlockGuards, b2 \in Blocks, tail \in BlockTails}

EvLoad(f, ops) == Ev("load", f, 0, "", ops, FALSE)

InitDead ==
    /\ pending \in {Scenario(<<src>>, {}) : src \in Sources \cup BlockSources}
    /\ opts = RunOpts(FALSE)
    /\ EngineNew

\* Engine::load_from_str on a script given as the ops its lines parse to
\* (run_header finds no include in it)
LoadSource ==
    /\ phase = "load"
    /\ files' = Append(files, remove_dead_code(Head(pending.scripts)))
    /\ recipes' = detect_recipes(recipes, files')
    /\ pending' = [pending EXCEPT !.scripts = Tail(@)]
    /\ phase' = IF Tail(pending.scripts) = <<>> THEN "idle" ELSE "load"
    /\ trace' = Append(trace, EvLoad(Len(files) + 1, Head(pending.scripts)))
    /\ UNCHANGED <<vars, recipe_vars, free, env, opts, included, cond_stack, init_i, file, pc, sec_res, sec,
                   sidx, result>>

NextDead == LoadSource

SpecDead == InitDead /\ [][NextDead]_vars_all

----------------------------------------------------------------------------
(* The variable manager driven directly: writes to its tiers, recipe exit *)

\* most writes and exits in one run of the variable manager
MaxWrites == 4

VarNames == {<<"a">>, <<"H">>}
VarValues == {VInt(1), VStr(<<"x">>)}
EnvValues == {<<"e">>}
EvVar(ev, name) == Ev(ev, 0, 0, "", name, FALSE)

InitVar ==
    /\ pending = Scenario(<<>>, {})
    /\ opts = RunOpts(FALSE)
    /\ EngineNew

Writing(sv, e, tr) ==
    /\ Len(trace) < MaxWrites
    /\ recipe_vars' = sv[1]
    /\ vars' = sv[2]
    /\ env' = e
    /\ trace' = Append(trace, tr)
    /\ UNCHANGED <<pending, files, recipes, free, opts, included, phase, init_i, file, pc, sec_res,
                   sec, sidx, result>>

\* VarMgr::set_var
SetVar(name, val) ==
    /\ Writing(set_var(recipe_vars, vars, name, val), env, EvVar("set_var", name))
    /\ UNCHANGED cond_stack

\* VarMgr::set_recipe_var
SetRecipeVar(name, val) ==
    /\ Writing(set_recipe_var(recipe_vars, vars, name, val), env, EvVar("set_recipe_var", name))
    /\ UNCHANGED cond_stack

\* Engine::set_env_var: the name is set in the engine's env overlay
SetEnvVar(name, val) ==
    /\ Writing(Same, [n \in DOMAIN env \cup {name} |-> IF n = name THEN val ELSE env[n]],
               EvVar("set_env", name))
    /\ UNCHANGED cond_stack

\* Engine::leave_recipe
LeaveRecipe ==
    /\ Writing(<<<<>>, vars>>, env, EvVar("leave_recipe", <<>>))
    /\ cond_stack' = <<>>

NextVarMgr ==
    \/ \E name \in VarNames, val \in VarValues : SetVar(name, val)
    \/ \E name \in VarNames, val \in VarValues : SetRecipeVar(name, val)
    \/ \E name \in VarNames, val \in EnvValues : SetEnvVar(name, val)
    \/ LeaveRecipe

SpecVar == InitVar /\ [][NextVarMgr]_vars_all

----------------------------------------------------------------------------
(* VarValue::cmp applied to pairs of values *)

CmpStrings == {<<>>, <<"a">>, <<"a", "b">>, <<"b">>, <<"2">>, <<"1", "0">>}
CmpLists == {<<>>, <<<<>>>>, <<<<"a">>>>, <<<<"b">>>>, <<<<"2">>>>, <<<<"a">>, <<"a">>>>,
             <<<<"a">>, <<"b">>>>, <<<<"b">>, <<"a">>>>}
CmpValues ==
    {Undefined}
    \cup {VInt(i) : i \in {-1, 0, 1, 2, 10}}
    \cup {VStr(str) : str \in CmpStrings}
    \cup {VList(l) : l \in CmpLists}
    \cup {VExec(code, out) : code \in {0, 1, 2}, out \in {<<>>, <<"a">>, <<"b">>}}
CmpOps == {"==", "!=", ">", "<", ">=", "<="}
\* the outcome of a.cmp(b, op) for every operator
EvCmp(a, b) == [ev |-> "cmp", a |-> a, b |-> b, is |-> [op \in CmpOps |-> cmp(a, b, op)]]

InitCmp ==
    /\ pending = Scenario(<<>>, {})
    /\ opts = RunOpts(FALSE)
    /\ EngineNew

\* VarValue::cmp
Compared(a, b) ==
    /\ trace = <<>>
    /\ trace' = <<EvCmp(a, b)>>
    /\ UNCHANGED <<pending, files, recipes, vars, recipe_vars, free, env, opts, included, cond_stack,
                   phase, init_i, file, pc, sec_res, sec, sidx, result>>

NextCmp == \E a \in CmpValues, b \in CmpValues : Compared(a, b)

SpecCmp == InitCmp /\ [][NextCmp]_vars_all

----------------------------------------------------------------------------
(* Feature guards (feature.rs) *)

UpperCase == <<"A", "B", "C", "D", "E", "F", "G", "H", "I", "J", "K", "L", "M",
               "N", "O", "P", "Q", "R", "S", "T", "U", "V", "W", "X", "Y", "Z">>
LowerCase == <<"a", "b", "c", "d", "e", "f", "g", "h", "i", "j", "k", "l", "m",
               "n", "o", "p", "q", "r", "s", "t", "u", "v", "w", "x", "y", "z">>
to_lowercase(str) ==
    [i \in 1..Len(str) |->
        IF \E j \in 1..Len(UpperCase) : UpperCase[j] = str[i]
        THEN LowerCase[CHOOSE j \in 1..Len(UpperCase) : UpperCase[j] = str[i]]
        ELSE str[i]]

\* the build target as the target crate reports it
target_os            == <<"l", "i", "n", "u", "x">>
target_pointer_width == <<"6", "4">>
target_os_family     == <<"u", "n", "i", "x">>
target_arch          == <<"x", "8", "6", "_", "6", "4">>
target_endian        == <<"l", "i", "t", "t", "l", "e">>

\* a predicate of a guard as the parser hands it over: not_op, feature_name,
\* feature_val
FeaturePred(inverse, f_name, vals) == [inverse |-> inverse, f_name |-> f_name, vals |-> vals]

negated(found, neg) == IF neg THEN ~found ELSE found

check_feature_val(val, p, neg) ==
    negated(\E i \in 1..Len(p) : val = to_lowercase(p[i]), neg)

\* a variant that negates on an empty list as well
check_feature_list_any(vals, p, neg) ==
    negated(\E i \in 1..Len(p) : \E j \in 1..Len(vals) :
                to_lowercase(vals[j]) = to_lowercase(p[i]), neg)
check_feature_list(vals, p, neg) ==
    IF vals = <<>> THEN FALSE
    ELSE negated(\E i \in 1..Len(p) : \E j \in 1..Len(vals) :
                     to_lowercase(vals[j]) = to_lowercase(p[i]), neg)

FeatureKinds == {<<"o", "s">>, <<"b", "i", "t">>, <<"f", "a", "m", "i", "l", "y">>,
                 <<"a", "r", "c", "h">>, <<"e", "n", "d", "i", "a", "n">>,
                 <<"f", "e", "a", "t", "u", "r", "e">>, <<"f", "e", "a", "t">>}
feature_pass(pr, f_name, o) ==
    CASE f_name = <<"o", "s">> -> check_feature_val(target_os, pr.vals, pr.inverse)
      [] f_name = <<"b", "i", "t">> -> check_feature_val(target_pointer_width, pr.vals, pr.inverse)
      [] f_name = <<"f", "a", "m", "i", "l", "y">> ->
            check_feature_val(target_os_family, pr.vals, pr.inverse)
      [] f_name = <<"a", "r", "c", "h">> -> check_feature_val(target_arch, pr.vals, pr.inverse)
      [] f_name = <<"e", "n", "d", "i", "a", "n">> ->
            check_feature_val(target_endian, pr.vals, pr.inverse)
      [] OTHER -> check_feature_list(o.feats, pr.vals, pr.inverse)

\* process_feature from the i-th predicate on: Err(f_name) for an unknown kind,
\* Ok(false) at the first predicate that fails
RECURSIVE process_from(_, _, _)
process_from(p, o, i) ==
    IF i > Len(p) THEN [err |-> <<>>, ok |-> TRUE]
    ELSE IF to_lowercase(p[i].f_name) \notin FeatureKinds
         THEN [err |-> to_lowercase(p[i].f_name), ok |-> FALSE]
    ELSE IF ~feature_pass(p[i], to_lowercase(p[i].f_name), o) THEN [err |-> <<>>, ok |-> FALSE]
    ELSE process_from(p, o, i + 1)
process_feature(p, o) == process_from(p, o, 1)

\* generated guards and user-feature lists
FeatureNames == {<<"o", "s">>, <<"F", "e", "a", "t", "u", "r", "e">>, <<"f", "e", "a", "t">>,
                 <<"z", "z">>}
FeatureVals == {<<"x">>, <<"X">>, <<"L", "i", "n", "u", "x">>}
FeatureValLists == UNION {[1..k -> FeatureVals] : k \in 1..MaxVals}
FeaturePreds ==
    {FeaturePred(inv, n, vs) : inv \in BOOLEAN, n \in FeatureNames, vs \in FeatureValLists}
FeatureGuards == UNION {[1..k -> FeaturePreds] : k \in 0..MaxPreds}
UserFeats == {<<>>, <<<<"x">>>>, <<<<"X">>>>, <<<<"y">>>>, <<<<"y">>, <<"x">>>>}

EvFeature(p, res) == [ev |-> "feature", guard |-> p, res |-> res]

InitFeat ==
    /\ pending = Scenario(<<>>, {})
    /\ opts \in {[RunOpts(FALSE) EXCEPT !.feats = fs] : fs \in UserFeats}
    /\ EngineNew

\* process_feature on a guard line
Processed(p) ==
    /\ trace = <<>>
    /\ trace' = <<EvFeature(p, process_feature(p, opts))>>
    /\ UNCHANGED <<pending, files, recipes, vars, recipe_vars, free, env, opts, included, cond_stack,
                   phase, init_i, file, pc, sec_res, sec, sidx, result>>

NextFeat == trace = <<>> /\ \E p \in FeatureGuards : Processed(p)

SpecFeat == InitFeat /\ [][NextFeat]_vars_all

-----------------------------------------------------------------------------
(* Interpolation (var.rs) *)

TemplateChars == {"$", "{", "}", "\\", "a", "n"}
Templates == UNION {[1..k -> TemplateChars] : k \in 0..MaxTemplate}
\* the globals of the generated variable managers
InterpVars ==
    {<<>>,
     <<Var(<<"a">>, VStr(<<"$", "{", "n", "}">>)), Var(<<"n">>, VStr(<<"\\", "n">>))>>,
     <<Var(<<"a">>, VList(<<<<"$", "$">>, <<"x">>>>))>>}

EvInterp(in_str, flat, out) == [ev |-> "interpolate", in_str |-> in_str, flat |-> flat, out |-> out]

InitInterp ==
    /\ pending = Scenario(<<>>, {})
    /\ opts = RunOpts(FALSE)
    /\ files = <<>>
    /\ included = <<>>
    /\ recipes = <<>>
    /\ vars \in InterpVars
    /\ recipe_vars = <<>>
    /\ free = <<>>
    /\ env = <<>>
    /\ cond_stack = <<>>
    /\ phase = "load"
    /\ init_i = 0
    /\ file = 0
    /\ pc = 0
    /\ sec_res = NoSec
    /\ sec = <<>>
    /\ sidx = 0
    /\ result = Res("none", "", 0, 0)
    /\ trace = <<>>

\* VarMgr::interpolate
Interpolated(in_str, flat) ==
    /\ trace = <<>>
    /\ trace' = <<EvInterp(in_str, flat, interpolate(in_str, flat))>>
    /\ UNCHANGED <<pending, files, recipes, vars, recipe_vars, free, env, opts, included, cond_stack,
                   phase, init_i, file, pc, sec_res, sec, sidx, result>>

NextInterp == trace = <<>> /\ \E in_str \in Templates, flat \in BOOLEAN : Interpolated(in_str, flat)

SpecInterp == InitInterp /\ [][NextInterp]_vars_all

-----------------------------------------------------------------------------
(* Properties: what the scripts declare, read off the files alone *)

Done == phase = "done"

\* the Recipe op an enabled recipe name denotes: the first in load order
Declared(name) == \E f \in 1..Len(files) : \E l \in 1..Len(files[f].ops) :
    files[f].ops[l].k = "Recipe" /\ files[f].ops[l].name = name
DeclOp(name) ==
    LET f == CHOOSE f \in 1..Len(files) :
                 /\ \E l \in 1..Len(files[f].ops) :
                        files[f].ops[l].k = "Recipe" /\ files[f].ops[l].name = name
                 /\ \A g \in 1..(f - 1) : \A l \in 1..Len(files[g].ops) :
                        ~(files[g].ops[l].k = "Recipe" /\ files[g].ops[l].name = name)
        l == CHOOSE l \in 1..Len(files[f].ops) :
                 /\ files[f].ops[l].k = "Recipe" /\ files[f].ops[l].name = name
                 /\ \A m \in 1..(l - 1) :
                        ~(files[f].ops[m].k = "Recipe" /\ files[f].ops[m].name = name)
    IN files[f].ops[l]
DeclDeps(name) == IF Declared(name) THEN DeclOp(name).deps ELSE <<>>
DepSet(name) == {DeclDeps(name)[i] : i \in 1..Len(DeclDeps(name))}

\* the names reachable from a set of names along declared dependencies
RECURSIVE Closure(_)
Closure(S) ==
    LET S2 == S \cup UNION {DepSet(n) : n \in S} IN IF S2 = S THEN S ELSE Closure(S2)
Reachable(name) == Closure({name})
\* a recipe reachable from name depends on itself, directly or transitively
Cyclic(name) == \E n \in Reachable(name) : n \in Closure(DepSet(n))
\* a name reachable from name denotes no recipe
Dangling(name) == \E n \in Reachable(name) : ~Declared(n)

\* the name of the recipe run_recipe resolved as its target
TargetName == files[sec_res.loc.file].ops[sec_res.loc.line].name

\* post-order of the declared dependency lists, to a given depth
RECURSIVE PostOrder(_, _)
RECURSIVE PostOrderDeps(_, _, _)
PostOrderDeps(deps, i, depth) ==
    IF i > Len(deps) THEN <<>>
    ELSE PostOrder(deps[i], depth) \o PostOrderDeps(deps, i + 1, depth)
PostOrder(name, depth) ==
    IF depth = 0 THEN <<>>
    ELSE PostOrderDeps(DeclDeps(name), 1, depth - 1) \o <<name>>

SecNames == [i \in 1..Len(sec) |-> sec[i].name]
Events(kind) == SelectSeq(trace, LAMBDA e : e.ev = kind)
Entered == [i \in 1..Len(Events("enter")) |-> Events("enter")[i].name]
Left == [i \in 1..Len(Events("leave")) |-> Events("leave")[i].name]
IsPrefix(s, u) == Len(s) <= Len(u) /\ s = SubSeq(u, 1, Len(s))

----------------------------------------------------------------------------
(* Claims *)

\* C1: when dependency resolution succeeds, no recipe occurs twice in the
\* linearized execution list, so no recipe body is entered twice in one run.
\* The engine breaks this: `a: b b` resolves to the list b, b, a.
C1_NoDuplicates ==
    /\ \A i, j \in 1..Len(sec) : sec[i].name = sec[j].name => i = j
    /\ \A i, j \in 1..Len(Entered) : Entered[i] = Entered[j] => i = j

\* C2 as stated: whenever exec_recipe resolves a target whose reachable
\* dependency graph has a cycle, run_recipe ends with a recipe-recursion
\* error and no recipe body is entered.
C2_CycleIsRecursionError ==
    [][(phase = "resolve" /\ Cyclic(TargetName))
        => (phase' = "done" /\ result'.kind = RecipeRecursionError
            /\ sec' = <<>> /\ trace' = trace)]_vars_all

\* C2 amended: on a cyclic graph run_recipe ends with a recipe-recursion error,
\* or with a recipe-not-found error when some reachable dependency name denotes
\* no recipe; no recipe body is entered, and nothing runs after the error.
C2_CycleIsError ==
    [][/\ phase # "done"
       /\ (phase = "resolve" /\ Cyclic(TargetName))
            => /\ phase' = "done"
               /\ sec' = <<>> /\ trace' = trace
               /\ IF Dangling(TargetName)
                  THEN result'.kind \in {RecipeRecursionError, RecipeNotFoundError}
                  ELSE result'.kind = RecipeRecursionError]_vars_all

\* C2 witness: a cycle through a dependency (not a self-dependency) was
\* reported as a recipe-recursion error
C2_Witness ==
    /\ Done /\ sec_res.some /\ Cyclic(TargetName)
    /\ TargetName \notin DepSet(TargetName)
    /\ result.kind = RecipeRecursionError /\ sec = <<>>

\* C3: when resolution succeeds the execution list is the post-order of the
\* declared dependency lists (dependencies first, left to right, target
\* last; just the target when it has no dependencies), and the bodies are
\* entered in that order, each left before the next is entered.
C3_PostOrder ==
    sec # <<>> =>
        /\ SecNames = PostOrder(TargetName, Len(recipes) + 1)
        /\ SecNames[Len(sec)] = TargetName
        /\ DeclDeps(TargetName) = <<>> => SecNames = <<TargetName>>
        /\ \A i \in 1..Len(sec) : \A d \in DepSet(SecNames[i]) :
               \E j \in 1..(i - 1) : SecNames[j] = d
        /\ IsPrefix(Entered, SecNames)
        /\ Left = SubSeq(Entered, 1, Len(Left))
        /\ Len(Entered) - Len(Left) \in {0, 1}
        /\ (Done /\ result.kind = "Ok") => Entered = SecNames /\ Left = SecNames

\* C3 witness: a target with two different dependencies ran to the end
C3_Witness ==
    /\ Done /\ result.kind = "Ok"
    /\ Len(sec) = 3 /\ Len(DeclDeps(TargetName)) = 2 /\ Cardinality(DepSet(TargetName)) = 2
    /\ Entered = SecNames

\* the header of file f is the ops before its first Recipe op
FirstRecipe(f) ==
    IF \E l \in 1..Len(files[f].ops) : files[f].ops[l].k = "Recipe"
    THEN CHOOSE l \in 1..Len(files[f].ops) :
             /\ files[f].ops[l].k = "Recipe"
             /\ \A m \in 1..(l - 1) : files[f].ops[m].k # "Recipe"
    ELSE Len(files[f].ops) + 1
InHeaderOf(f, l) == l < FirstRecipe(f)
PlainHeader(f) == \A l \in 1..(FirstRecipe(f) - 1) : files[f].ops[l].k = "Shell"
HeaderRun == [i \in 1..Len(Events("header")) |-> Events("header")[i].file]
ReverseLoad == [i \in 1..Len(files) |-> Len(files) + 1 - i]
\* how often the command at line l of file f was spawned, and with what
ShellAt(f, l) == SelectSeq(trace, LAMBDA e : e.ev = "shell" /\ e.file = f /\ e.line = l)
Ran(f, l) == Len(ShellAt(f, l))
Shown(f, l) == [i \in 1..Ran(f, l) |-> ShellAt(f, l)[i].cmd]

BodyError(op, sec_flags) ==
    CASE op.k = "Error" -> UserError
      [] op.k = "Include" -> IncludeInRecipeError
      [] op.k = "Shell" ->
            IF /\ \/ ~shell_status_success(interpolate(op.cmd, TRUE))
                  \/ ~shell_spawns(interpolate(op.cmd, TRUE))
               /\ is_flag_on(op.flags, FLAG_PASS) = is_flag_on(sec_flags, FLAG_PASS)
            THEN ExecFailureError ELSE ""
      [] OTHER -> ""

\* C5: when a body op raises an error PASS does not suppress, run_recipe
\* returns that error at that op, no further recipe is entered, and
\* nothing at all runs once run_recipe has returned.
C5_ErrorAborts ==
    [][/\ phase # "done"
       /\ (phase = "body" /\ ~AtEnd /\ BodyError(CurOp, sec[sidx].flags) # "")
            => /\ phase' = "done"
               /\ result' = Res(BodyError(CurOp, sec[sidx].flags), "", file, pc)
               /\ Events("enter")' = Events("enter")]_vars_all

\* C5 witness: a command of a dependency failed and the run ended there,
\* with recipes of the list still to run
C5_Witness ==
    /\ Done /\ result.kind = ExecFailureError
    /\ sec # <<>> /\ sidx < Len(sec)
    /\ result.file = sec[sidx].loc.file /\ result.line > sec[sidx].loc.line
    /\ Len(Entered) = sidx

RunName == trace[1].name
IsDisabled(name) == \E f \in 1..Len(files) : \E i \in 1..Len(files[f].disabled) :
    files[f].disabled[i].name = name

NoLoops(f) == \A l \in 1..Len(files[f].ops) : files[f].ops[l].k \notin {"For", "While"}
NoElse(f) == \A l \in 1..Len(files[f].ops) : files[f].ops[l].k # "Else"
IfElseAt(f, p) ==
    /\ p + 4 <= Len(files[f].ops)
    /\ files[f].ops[p].k = "If"
    /\ files[f].ops[p + 1].k = "Shell"
    /\ files[f].ops[p + 2].k = "Else"
    /\ files[f].ops[p + 3].k = "Shell"
    /\ files[f].ops[p + 4].k = "StmtClose"
Cond(f, p) == is_true(exec_op(files[f].ops[p].ops[1]))
Finished == Done /\ result.kind = "Ok"

\* C7: in `if C / A / else / B / end` (outside any loop) exactly one of A
\* and B has run when the run is over: A when C is truthy, B otherwise.
\* The engine breaks this: both run when C is truthy, neither otherwise.
C7_ExactlyOneBranch ==
    \A f \in 1..Len(files) : \A p \in 1..Len(files[f].ops) :
        (Finished /\ NoLoops(f) /\ IfElseAt(f, p)) =>
            /\ Ran(f, p + 1) + Ran(f, p + 3) = 1
            /\ Ran(f, p + 1) = 1 <=> Cond(f, p)

Branches(f) == {p \in 1..Len(files[f].ops) : files[f].ops[p].k \in {"If", "ElseIf"}}
FirstTruthy(f, p) == Cond(f, p) /\ \A q \in Branches(f) : q < p => ~Cond(f, q)

\* C8: in a chain `if c1 / b1 / elseif c2 / b2 ... / end` (no else, outside
\* any loop) the only body that has run when the run is over is that of the
\* first branch whose condition is truthy.
\* The engine breaks this: after a truthy branch the later truthy branches
\* run too, after a falsy `if` no branch runs at all.
C8_FirstTruthyBranch ==
    \A f \in 1..Len(files) :
        (/\ Finished /\ NoLoops(f) /\ NoElse(f)
         /\ \E p \in Branches(f) : files[f].ops[p].k = "ElseIf")
        => \A p \in Branches(f) : Ran(f, p + 1) = IF FirstTruthy(f, p) THEN 1 ELSE 0

RECURSIVE Range(_, _, _)
Range(start, end, step) ==
    IF (step > 0 /\ start >= end) \/ (step < 0 /\ start <= end) \/ step = 0 THEN <<>>
    ELSE <<start>> \o Range(start + step, end, step)
\* line p of file f is a `for` over a source of one of the kinds, the only loop
\* of the file, and the file has no break and no continue
ForAt(f, p, kinds) ==
    /\ files[f].ops[p].k = "For"
    /\ files[f].ops[p].seq.k \in kinds
    /\ \A l \in 1..Len(files[f].ops) :
          /\ files[f].ops[l].k \notin {"While", "Break", "Continue"}
          /\ files[f].ops[l].k = "For" => l = p
ShowCmd(c, s) == <<c>> \o s

\* C9: when the run is over, the first command of the body of
\* `for v in start..end..step` has run once for each of start, start+step, ...
\* strictly before end, in that order, with v bound to that value.
\* The engine breaks this when the body holds an `if` whose condition is
\* falsy and that has an `else`: the loop ends after its first iteration.
C9_IntLoopIterations ==
    \A f \in 1..Len(files) : \A p \in 1..Len(files[f].ops) :
        (Finished /\ ForAt(f, p, {"Int"})) =>
            LET seq == files[f].ops[p].seq
                expect == Range(seq.start, seq.end, seq.step)
            IN Shown(f, p + 1) =
                   [i \in 1..Len(expect) |-> ShowCmd("e", int_to_string(expect[i]))]

\* C10: when the run is over, the first command of the body of a `for` over
\* a list source with n elements has run n times, with the loop variable bound
\* to the elements in their order.
\* The engine breaks this when the body holds an `if` whose condition is
\* falsy and that has an `else`: the loop ends after its first iteration.
C10_ListLoopIterations ==
    \A f \in 1..Len(files) : \A p \in 1..Len(files[f].ops) :
        (Finished /\ ForAt(f, p, {"Str", "Idents", "Exec"})) =>
            LET expect == for_values(files[f].ops[p].seq) IN
            Shown(f, p + 1) = [i \in 1..Len(expect) |-> ShowCmd("e", expect[i])]

----------------------------------------------------------------------------
(* Loops and jumps, read off the file alone *)

\* the StmtClose that closes the opener at line q of file f
MatchEnd(f, q) == find_end_from(files[f].ops, q + 1, 1).idx - 1
\* the openers of file f that are closed: those of the model's scripts all are
Closed(f) == {q \in 1..Len(files[f].ops) :
                 IsOpener(files[f].ops[q]) /\ find_end_from(files[f].ops, q + 1, 1).err = ""}
\* the while loops whose StmtClose is at line p
WhileClosedAt(f, p) == {q \in Closed(f) : files[f].ops[q].k = "While" /\ MatchEnd(f, q) = p}
\* the frame exec_while pushes for the While at line q
WhileFrame(f, q) == CondItem(q, CWhile(files[f].ops[q].ops))
Truthy(ops) == is_true(exec_op(ops[1]))

\* C11: a While whose condition is falsy on entry continues after its StmtClose
\* and pushes no frame, a truthy one pushes its While frame and enters the body;
\* at the StmtClose of a While the condition is evaluated again: truthy goes on
\* at the op after the While with the frame kept on top, falsy removes the
\* frame and goes on after the StmtClose.
C11_While ==
    [][/\ At("While") =>
            IF Truthy(CurOp.ops)
            THEN pc' = pc + 1 /\ cond_stack' = Append(cond_stack, WhileFrame(file, pc))
            ELSE pc' = MatchEnd(file, pc) + 1 /\ cond_stack' = cond_stack
       /\ \A q \in (IF At("StmtClose") THEN WhileClosedAt(file, pc) ELSE {}) :
            IF Truthy(files[file].ops[q].ops)
            THEN /\ pc' = q + 1
                 /\ cond_stack' = cond_stack
                 /\ Top(cond_stack') = WhileFrame(file, q)
            ELSE /\ pc' = pc + 1
                 /\ cond_stack # <<>>
                 /\ Top(cond_stack) = WhileFrame(file, q)
                 /\ cond_stack' = Pop(cond_stack)
      ]_vars_all

\* the loops of file f whose body holds line p, and the innermost of them
LoopsAround(f, p) ==
    {q \in Closed(f) : files[f].ops[q].k \in {"For", "While"} /\ q < p /\ p < MatchEnd(f, q)}
Innermost(f, p) == CHOOSE q \in LoopsAround(f, p) : \A r \in LoopsAround(f, p) : r <= q
NoLoopFrame == \A i \in 1..Len(cond_stack) : cond_stack[i].cond.k = "If"
\* frame i of the stack is the frame of the loop at line q and only If frames are above it
LoopFrameAt(i, q) ==
    /\ cond_stack[i].line = q
    /\ cond_stack[i].cond.k # "If"
    /\ \A j \in (i + 1)..Len(cond_stack) : cond_stack[j].cond.k = "If"
Fails(kind) == phase' = "done" /\ result'.kind = kind

\* C12: Break in a loop removes the If frames above the frame of the innermost
\* enclosing loop and that frame, leaves the frames below unchanged and goes on
\* at the op after that loop's StmtClose; Break with no loop frame on the
\* stack is a no-matching-for-while error.
C12_Break ==
    [][At("Break") =>
          IF NoLoopFrame THEN Fails(NoMatchingForWhileError)
          ELSE LoopsAround(file, pc) # {} =>
                 LET q == Innermost(file, pc) IN
                 \E i \in 1..Len(cond_stack) :
                    /\ LoopFrameAt(i, q)
                    /\ cond_stack' = SubSeq(cond_stack, 1, i - 1)
                    /\ pc' = MatchEnd(file, q) + 1
                    /\ phase' = phase
      ]_vars_all

\* C13: Continue in a loop removes the If frames above the frame of the
\* innermost enclosing loop, leaves that frame on top and goes to that loop's
\* StmtClose, so that the next step is the loop's iteration step; Continue with
\* no loop frame on the stack is a no-matching-for-while error.
C13_Continue ==
    [][At("Continue") =>
          IF NoLoopFrame THEN Fails(NoMatchingForWhileError)
          ELSE LoopsAround(file, pc) # {} =>
                 LET q == Innermost(file, pc) IN
                 \E i \in 1..Len(cond_stack) :
                    /\ LoopFrameAt(i, q)
                    /\ cond_stack' = SubSeq(cond_stack, 1, i)
                    /\ pc' = MatchEnd(file, q)
                    /\ files[file].ops[pc'].k = "StmtClose"
                    /\ phase' = phase
      ]_vars_all

----------------------------------------------------------------------------
(* Properties of loading: what a script says, read off its lines alone *)

\* the scripts loaded so far: the load events of the history
Loads == {i \in 1..Len(trace) : trace[i].ev = "load"}
Raw(i) == trace[i].cmd
Kept(i) == files[trace[i].file].ops
Off(i) == files[trace[i].file].disabled
\* the lines of the recipe headers of a script, and the header after line h
HeaderLines(raw) == {h \in 1..Len(raw) : raw[h].k = "Recipe"}
NextHeader(raw, h) ==
    IF \E g \in HeaderLines(raw) : g > h
    THEN CHOOSE g \in HeaderLines(raw) : g > h /\ \A x \in HeaderLines(raw) : x > h => g <= x
    ELSE Len(raw) + 1
KeptLines(i) == {Kept(i)[j].line : j \in 1..Len(Kept(i))}
KeptHeaders(i) == {Kept(i)[j].line : j \in {x \in 1..Len(Kept(i)) : Kept(i)[x].k = "Recipe"}}
OffLines(i) == {Off(i)[j].line : j \in 1..Len(Off(i))}

\* C14: the retained stream of a loaded script holds no op of a line between
\* the header of a recipe that was disabled and the next recipe header, and
\* every recipe header of the script is either retained or disabled.
C14_NoDisabledBody ==
    \A i \in Loads :
        /\ \A h \in OffLines(i) : \A l \in KeptLines(i) :
              ~(h <= l /\ l < NextHeader(Raw(i), h))
        /\ \A h \in HeaderLines(Raw(i)) : (h \in KeptHeaders(i)) # (h \in OffLines(i))

\* C14 witness: a disabled recipe with a command in its body, followed by a
\* recipe that is retained with its own body
C14_Witness ==
    \E i \in Loads : \E h \in OffLines(i) :
        /\ h + 1 < NextHeader(Raw(i), h)
        /\ Raw(i)[h + 1].k = "Shell"
        /\ NextHeader(Raw(i), h) \in KeptHeaders(i)
        /\ Len(Raw(i)) \in KeptLines(i)

Count(ops, kinds) == Cardinality({j \in 1..Len(ops) : ops[j].k \in kinds})

\* C15: the retained stream of every loaded script has as many If, While and
\* For ops as it has StmtClose ops.
C15_Balanced ==
    \A i \in Loads : Count(Kept(i), {"If", "While", "For"}) = Count(Kept(i), {"StmtClose"})

\* the guards of the header on line h: the Feature ops among the guards, doc
\* comments and comments written right before it
IsPending(op) == op.k \in {"Feature", "DocComment", "Comment"}
RECURSIVE FirstPending(_, _)
FirstPending(raw, h) ==
    IF h > 1 /\ IsPending(raw[h - 1]) THEN FirstPending(raw, h - 1) ELSE h
OwnGuards(raw, h) == {g \in FirstPending(raw, h)..(h - 1) : raw[g].k = "Feature"}
GuardsPass(raw, h) == \A g \in OwnGuards(raw, h) : raw[g].pass
RECURSIVE TextFrom(_, _, _)
TextFrom(raw, g, h) ==
    IF g >= h THEN <<>>
    ELSE (IF raw[g].k = "Feature" THEN raw[g].cmd ELSE <<>>) \o TextFrom(raw, g + 1, h)
GuardText(raw, h) == TextFrom(raw, FirstPending(raw, h), h)
\* the recipes() entries that are the recipe of line h of loaded script i
Listed(i, h) ==
    {r \in 1..Len(recipes) : recipes[r].loc.file = trace[i].file
                              /\ Kept(i)[recipes[r].loc.line].line = h}
OffEntries(i, h) == {j \in 1..Len(Off(i)) : Off(i)[j].line = h}

\* C16: a recipe whose own guards do not all pass is not in the retained
\* stream nor in recipes(), and disabled_recipes() has exactly one entry for
\* it, with its name and the text of its own guards, which is not empty; a
\* recipe with no guard or whose guards all pass has no entry there.
C16_GuardDecides ==
    \A i \in Loads : \A h \in HeaderLines(Raw(i)) :
        IF GuardsPass(Raw(i), h) THEN OffEntries(i, h) = {}
        ELSE /\ h \notin KeptHeaders(i)
             /\ Listed(i, h) = {}
             /\ Cardinality(OffEntries(i, h)) = 1
             /\ \A j \in OffEntries(i, h) :
                  /\ Off(i)[j].name = Raw(i)[h].name
                  /\ Off(i)[j].feat = GuardText(Raw(i), h)
                  /\ Off(i)[j].feat # <<>>

\* the header before line h (0 when there is none) and the description of the
\* recipe on line h: the last doc comment written right before it
PrevHeader(raw, h) ==
    IF \E g \in HeaderLines(raw) : g < h
    THEN CHOOSE g \in HeaderLines(raw) : g < h /\ \A x \in HeaderLines(raw) : x < h => x <= g
    ELSE 0
RECURSIVE DescFrom(_, _, _)
DescFrom(raw, g, h) ==
    IF h <= g THEN <<>>
    ELSE IF raw[h - 1].k = "DocComment" THEN raw[h - 1].cmd ELSE DescFrom(raw, g, h - 1)
OwnDesc(raw, h) == DescFrom(raw, FirstPending(raw, h), h)
OwnEntry(i, h) ==
    /\ Cardinality(OffEntries(i, h)) = 1
    /\ \A j \in OffEntries(i, h) :
         /\ Off(i)[j].name = Raw(i)[h].name
         /\ Off(i)[j].feat = GuardText(Raw(i), h)
         /\ Off(i)[j].desc = OwnDesc(Raw(i), h)

\* C17: the recipe that follows a disabled recipe is judged by the guards
\* written right before its own header: when they fail it is disabled and
\* recorded with its own guard text and description, when there is none or
\* they pass it is retained and listed; the disabled recipe before it keeps
\* its own guard text and description.  Recipes disabled in a row are each
\* the recipe before the next one.
C17_NextRecipeOwnGuards ==
    \A i \in Loads : \A h \in HeaderLines(Raw(i)) :
        PrevHeader(Raw(i), h) \in OffLines(i) =>
            /\ OwnEntry(i, PrevHeader(Raw(i), h))
            /\ IF GuardsPass(Raw(i), h)
               THEN h \in KeptHeaders(i) /\ OffEntries(i, h) = {} /\ Listed(i, h) # {}
               ELSE h \notin KeptHeaders(i) /\ OwnEntry(i, h)

\* C17 witness: two recipes disabled in a row, the second with a description,
\* and after them a recipe that has a guard and is retained
C17_Witness ==
    \E i \in Loads : \E h \in HeaderLines(Raw(i)) :
        LET p == PrevHeader(Raw(i), h) IN
        /\ p \in OffLines(i)
        /\ PrevHeader(Raw(i), p) \in OffLines(i)
        /\ OwnDesc(Raw(i), p) # <<>>
        /\ OwnGuards(Raw(i), h) # {}
        /\ h \in KeptHeaders(i)

----------------------------------------------------------------------------
(* Properties of commands *)

\* the flags in force for the Shell op the engine is at, bit by bit: in a
\* recipe body a bit is on when exactly one of the recipe and the op sets it
EffectiveOn(flag) ==
    IF phase = "body" THEN is_flag_on(sec[sidx].flags, flag) # is_flag_on(CurOp.flags, flag)
    ELSE is_flag_on(CurOp.flags, flag)
CommandLine == interpolate(CurOp.cmd, TRUE)
CommandFails == ~shell_spawns(CommandLine) \/ ~shell_status_success(CommandLine)

\* C18: a Shell op runs its interpolated command line, echoed first iff QUIET
\* is off in the flags in force; a command that cannot be spawned or exits
\* non-zero ends the run with an exec-failure error iff PASS is off in them,
\* and otherwise the engine goes on with the next op.  The flags in force are
\* the recipe's XOR the op's in a body and the op's own in a header.
C18_ShellFlags ==
    [][At("Shell") =>
          /\ trace' = Append(trace, EvShell(file, pc, CommandLine, ~EffectiveOn(FLAG_QUIET)))
          /\ IF CommandFails /\ ~EffectiveOn(FLAG_PASS)
             THEN Fails(ExecFailureError)
             ELSE pc' = pc + 1 /\ phase' = phase /\ result' = result
      ]_vars_all

\* C18 witness: in the body of a recipe that has PASS a command that has PASS
\* too failed and ended the run
C18_Witness ==
    /\ phase = "done"
    /\ result.kind = ExecFailureError
    /\ sec # <<>>
    /\ is_flag_on(sec[sidx].flags, FLAG_PASS)
    /\ files[result.file].ops[result.line].k = "Shell"
    /\ is_flag_on(files[result.file].ops[result.line].flags, FLAG_PASS)

\* C19: an engine created with dry_run set spawns no command for a Shell op,
\* in a header or in a recipe body.
C19_DryRunSpawnsNothing ==
    opts.dry_run => \A i \in 1..Len(trace) : trace[i].ev # "shell"


----------------------------------------------------------------------------
(* Variable resolution *)

\* the values a list of variables holds for a name
ValuesOf(list, name) == {list[i].value : i \in {j \in 1..Len(list) : list[j].name = name}}
\* the names a read is tried on: the written ones and one that nothing defines
ReadNames == VarNames \cup {<<"u">>}
Resolved(name) ==
    IF ValuesOf(recipe_vars, name) # {} THEN CHOOSE v \in ValuesOf(recipe_vars, name) : TRUE
    ELSE IF ValuesOf(vars, name) # {} THEN CHOOSE v \in ValuesOf(vars, name) : TRUE
    ELSE IF name \in DOMAIN env THEN VStr(env[name])
    ELSE IF name \in DOMAIN os_env THEN VStr(os_env[name])
    ELSE Undefined
ReadsResolve ==
    \A name \in ReadNames :
        /\ Cardinality(ValuesOf(recipe_vars, name)) <= 1
        /\ Cardinality(ValuesOf(vars, name)) <= 1
        /\ var(name) = Resolved(name)
\* the step in which a recipe exit clears the recipe-local variables
RecipeExit == trace' = Append(trace, EvVar("leave_recipe", <<>>))
ExitUncovers ==
    RecipeExit =>
        \A name \in ReadNames :
            HasVar(recipe_vars, name) /\ HasVar(vars, name) =>
                /\ var(name) = recipe_vars[VarPos(recipe_vars, name)].value
                /\ var(name)' = vars[VarPos(vars, name)].value

\* C20: a read returns the recipe-local value of the name if there is one, else
\* the global value, else the value in the engine's env overlay, else the value
\* in the OS environment, else Undefined; and when a recipe exit clears the
\* recipe-local variables, a name that was shadowing a global reads as that
\* global's value again.
C20_VarTiers == []ReadsResolve /\ [][ExitUncovers]_vars_all

\* a name set in the OS environment and in the env overlay got a global and then
\* a different recipe-local value, and the recipe was left: the global is read
C20_Witness ==
    /\ Len(trace) = 4
    /\ trace[1] = EvVar("set_env", <<"H">>)
    /\ trace[2] = EvVar("set_var", <<"H">>)
    /\ trace[3] = EvVar("set_recipe_var", <<"H">>)
    /\ trace[4] = EvVar("leave_recipe", <<>>)
    /\ recipe_vars = <<>>
    /\ vars = <<Var(<<"H">>, VStr(<<"x">>))>>
    /\ var(<<"H">>) = VStr(<<"x">>)


----------------------------------------------------------------------------
(* Assignments *)

\* everything but the instruction index is left as it was
OnlyAdvances ==
    /\ pc' = pc + 1
    /\ UNCHANGED <<pending, files, recipes, vars, recipe_vars, free, env, opts, included, cond_stack,
                   phase, init_i, file, sec_res, sec, sidx, result, trace>>
\* the step is the one an Assign of the same name and right-hand side takes
LikeAssign(name, ops) ==
    /\ <<recipe_vars', vars'>> = exec_assign(name, ops).sv
    /\ trace' = trace \o EvExecs(file, pc, exec_assign(name, ops).sp)
    /\ pc' = pc + 1
    /\ UNCHANGED <<pending, files, recipes, free, env, opts, included, cond_stack,
                   phase, init_i, file, sec_res, sec, sidx, result>>
DefAssignStep ==
    At("DefAssign") =>
        IF is_true(var(CurOp.v)) THEN OnlyAdvances ELSE LikeAssign(CurOp.v, CurOp.ops)

\* a ?= 10 / a ?= 20 / a ?= 10 / a ?= 20 at the start of the running header or body
TenTwenty ==
    def_program(<<>>, <<AndExpr(<<OpInt(10)>>)>>, <<AndExpr(<<OpInt(20)>>)>>)
TenTwentyAt(p) ==
    /\ Running
    /\ p = IF phase = "init" THEN 1 ELSE 2
    /\ Len(files[file].ops) >= p + 3
    /\ SubSeq(files[file].ops, p, p + 3) = TenTwenty
TenTwentyKeepsTen ==
    \A p \in 1..2 :
        TenTwentyAt(p) /\ pc \in (p + 2)..(p + 4) =>
            /\ var(AssignVar) = VInt(10)
            /\ vars = <<Var(AssignVar, VInt(10))>>
            /\ recipe_vars = <<>>

\* C21: a DefAssign of a variable that reads as truthy changes nothing and runs
\* nothing of its right-hand side; of a variable that reads as falsy it does what
\* an Assign of the same name and right-hand side does.  After `a ?= 10` and
\* `a ?= 20` the variable a is Int(10), and the two lines executed again leave it so.
C21_DefAssign == []TenTwentyKeepsTen /\ [][DefAssignStep]_vars_all

\* the two lines were executed twice and a is Int(10)
C21_Witness ==
    /\ TenTwentyAt(1)
    /\ pc = 5
    /\ var(AssignVar) = VInt(10)


\* the terms of the i-th || operand of a right-hand side
TermsOf(ops, g) == IF ops[g].k = "AndExpr" THEN ops[g].ops ELSE <<ops[g]>>
TermTrue(ops, g, t) == is_true(exec_op(TermsOf(ops, g)[t]))
GroupTrue(ops, g) == \A t \in 1..Len(TermsOf(ops, g)) : TermTrue(ops, g, t)
\* a term is evaluated iff every && group before its own is falsy and every term
\* before it in its own group is truthy
Evaluated(ops, g, t) ==
    /\ \A h \in 1..(g - 1) : ~GroupTrue(ops, h)
    /\ \A u \in 1..(t - 1) : TermTrue(ops, g, u)
SingleValue(ops) == Len(ops) = 1 /\ Len(TermsOf(ops, 1)) = 1
Stored(ops) ==
    IF SingleValue(ops) THEN exec_op(TermsOf(ops, 1)[1])
    ELSE IF \E g \in 1..Len(ops) : GroupTrue(ops, g) THEN VInt(1) ELSE VInt(0)
\* the backtick commands among the evaluated terms, left to right
TermRuns(ops, g, t) ==
    IF Evaluated(ops, g, t) /\ TermsOf(ops, g)[t].k = "Exec"
    THEN <<interpolate(TermsOf(ops, g)[t].s, TRUE)>> ELSE <<>>
GroupRuns(ops, g) ==
    concat([t \in 1..Len(TermsOf(ops, g)) |-> TermRuns(ops, g, t)], Len(TermsOf(ops, g)))
Runs(ops) == concat([g \in 1..Len(ops) |-> GroupRuns(ops, g)], Len(ops))
SimpleTerms(ops) ==
    \A g \in 1..Len(ops) : \A t \in 1..Len(TermsOf(ops, g)) :
        TermsOf(ops, g)[t].k \in {"Int", "Str", "Var", "Exec"}
AssignStep ==
    At("Assign") /\ SimpleTerms(CurOp.ops) =>
        \E name \in {CurOp.v}, stored \in {Stored(CurOp.ops)} :
            /\ var(name)' = stored
            /\ SingleValue(CurOp.ops) => stored.t = exec_op(TermsOf(CurOp.ops, 1)[1]).t
            /\ trace' = trace \o EvExecs(file, pc, Runs(CurOp.ops))
            /\ pc' = pc + 1

\* C22: an Assign whose right-hand side is one value stores that value, kind
\* included; with several terms it stores Int(1) when some && group has only
\* truthy terms and Int(0) otherwise, and the only terms evaluated are those
\* with every earlier && group falsy and every earlier term of their own group
\* truthy, left to right.
C22_Assign == [][AssignStep]_vars_all

ShortCircuited ==
    <<AndExpr(<<OpExec(<<"f", "1">>), OpExec(<<"p", "1">>)>>), AndExpr(<<OpStr(<<"x">>)>>)>>
\* a = `f1` && `p1` || 'x' was executed: `f1` ran, `p1` did not, a is Int(1)
C22_Witness ==
    /\ phase = "init"
    /\ pc = 2
    /\ files[file].ops[1] = Assign(AssignVar, ShortCircuited)
    /\ var(AssignVar) = VInt(1)
    /\ Events("exec") = <<Ev("exec", file, 1, "", <<"f", "1">>, FALSE)>>


----------------------------------------------------------------------------
(* Comparisons *)

Comparisons == {trace[i] : i \in {j \in 1..Len(trace) : trace[j].ev = "cmp"}}
Succeeded(v) == v.t = "Exec" /\ v.i = 0
Failed(v) == v.t = "Exec" /\ v.i # 0

\* C23: of a successful and a failed Exec the successful one is the greater:
\* s > f and f < s are true, s < f and f > s are false.
C23_ExecSuccessGreater ==
    \A e \in Comparisons :
        /\ Succeeded(e.a) /\ Failed(e.b) => e.is[">"] /\ ~e.is["<"]
        /\ Failed(e.a) /\ Succeeded(e.b) => e.is["<"] /\ ~e.is[">"]

\* the natural order of lists of strings: the first differing item decides, a
\* proper prefix is the lesser
RECURSIVE list_lt(_, _)
list_lt(a, b) ==
    IF b = <<>> THEN FALSE
    ELSE IF a = <<>> THEN TRUE
    ELSE IF a[1] = b[1] THEN list_lt(Tail(a), Tail(b))
    ELSE str_lt(a[1], b[1])
\* two values of one kind that the natural order of the kind orders: two Exec
\* values are taken with equal exit codes
SameKind(a, b) ==
    /\ a.t = b.t
    /\ a.t \in {"Int", "Str", "List", "Exec"}
    /\ a.t = "Exec" => a.i = b.i
NaturalLt(a, b) ==
    CASE a.t = "Int"  -> a.i < b.i
      [] a.t = "Str"  -> str_lt(a.s, b.s)
      [] a.t = "List" -> list_lt(a.l, b.l)
      [] a.t = "Exec" -> str_lt(a.s, b.s)
NaturalEq(a, b) ==
    CASE a.t = "Int"  -> a.i = b.i
      [] a.t = "Str"  -> a.s = b.s
      [] a.t = "List" -> a.l = b.l
      [] a.t = "Exec" -> a.s = b.s

\* C24: for two values of one kind, ==, < and > are the natural order of the
\* kind: numeric for Int, lexicographic for Str, lexicographic item by item for
\* List, and by stdout for two Exec values with the same exit code.
C24_NaturalOrder ==
    \A e \in Comparisons :
        SameKind(e.a, e.b) =>
            /\ e.is["=="] = NaturalEq(e.a, e.b)
            /\ e.is["<"] = NaturalLt(e.a, e.b)
            /\ e.is[">"] = NaturalLt(e.b, e.a)


-----------------------------------------------------------------------------
(* Include cycles *)

\* the paths the include lines of a file on disk name
targets(disk, p) ==
    IF p \in DOMAIN disk
    THEN {to_include(disk[p].ops)[i].path : i \in 1..Len(to_include(disk[p].ops))}
    ELSE {}
RECURSIVE reach(_, _, _)
reach(disk, S, n) ==
    IF n = 0 THEN S ELSE reach(disk, S \cup UNION {targets(disk, p) : p \in S}, n - 1)
Reached(disk, S) == reach(disk, S, Cardinality(DOMAIN disk) + 1)
OnCycle(disk, p) == p \in Reached(disk, targets(disk, p))

\* the first load of the caller has returned; files[1] is the file it was given
RootLoaded == phase # "load" /\ files # <<>>
RootIncludes == to_include(files[1].ops)
RootFromFile == included # <<>> /\ files[1] = pending.disk[included[1]]
RootPaths ==
    IF RootFromFile THEN {included[1]}
    ELSE {RootIncludes[i].path : i \in 1..Len(RootIncludes)}
\* the files on disk that the load can come to
Loadable == Reached(pending.disk, RootPaths) \cap DOMAIN pending.disk
CycleReachable == \E p \in Loadable : OnCycle(pending.disk, p)
IncludeFlags ==
    {RootIncludes[i].flags : i \in 1..Len(RootIncludes)}
    \cup UNION {{to_include(pending.disk[p].ops)[i].flags :
                    i \in 1..Len(to_include(pending.disk[p].ops))} : p \in Loadable}
NoPass == \A f \in IncludeFlags : ~is_flag_on(f, FLAG_PASS)
AllOnDisk == Reached(pending.disk, RootPaths) \subseteq DOMAIN pending.disk
LoadFailed == phase = "done" /\ result.kind \in {IncludeRecursionError, FileOpenFailure}

NoRevisit == \A i, j \in 1..Len(included) : included[i] = included[j] => i = j
-----------------------------------------------------------------------------
(* Feature guards *)

\* the value a predicate of a known kind is tested against
Tested(f_name) ==
    CASE f_name = <<"o", "s">> -> {target_os}
      [] f_name = <<"b", "i", "t">> -> {target_pointer_width}
      [] f_name = <<"f", "a", "m", "i", "l", "y">> -> {target_os_family}
      [] f_name = <<"a", "r", "c", "h">> -> {target_arch}
      [] f_name = <<"e", "n", "d", "i", "a", "n">> -> {target_endian}
      [] OTHER -> {to_lowercase(opts.feats[j]) : j \in 1..Len(opts.feats)}
Matches(pr) ==
    \E i \in 1..Len(pr.vals) : to_lowercase(pr.vals[i]) \in Tested(to_lowercase(pr.f_name))
Passes(pr) == IF pr.inverse THEN ~Matches(pr) ELSE Matches(pr)
KnownKinds(p) == \A i \in 1..Len(p) : to_lowercase(p[i].f_name) \in FeatureKinds

\* C26: a guard whose predicates are all of a known kind passes exactly when
\* every predicate passes, a predicate passing when one of its values matches
\* case-insensitively, inverted by `!`; for every list of user features.
C26_GuardPasses ==
    \A i \in 1..Len(trace) :
        (trace[i].ev = "feature" /\ KnownKinds(trace[i].guard)) =>
            /\ trace[i].res.err = <<>>
            /\ trace[i].res.ok = (\A j \in 1..Len(trace[i].guard) : Passes(trace[i].guard[j]))


-----------------------------------------------------------------------------
(* Interpolation *)

Plain(str) == \A i \in 1..Len(str) : str[i] \notin {"$", "\\"}
\* the text that stands for a variable: nothing when it is not set, a string as
\* it is, the two items of a list joined by a space (flat) or a line break
ValueText(name, flat) ==
    IF ~HasVar(vars, name) THEN <<>>
    ELSE IF vars[VarPos(vars, name)].value.t = "Str" THEN vars[VarPos(vars, name)].value.s
    ELSE vars[VarPos(vars, name)].value.l[1] \o (IF flat THEN <<" ">> ELSE <<"\n">>)
         \o vars[VarPos(vars, name)].value.l[2]
\* what the template p, which starts with `$`, turns into
AtDollar(p, flat) ==
    IF starts_with(p, <<"$", "$">>) THEN <<"$">> \o interpolate(skip(p, 2), flat)
    ELSE IF ~starts_with(p, <<"$", "{">>) THEN <<"$">> \o interpolate(skip(p, 1), flat)
    ELSE IF find(skip(p, 2), "}") = 0 THEN p
    ELSE ValueText(SubSeq(p, 3, find(p, "}") - 1), flat) \o interpolate(skip(p, find(p, "}")), flat)
Scanned(e) ==
    /\ Plain(e.in_str) => e.out = e.in_str
    /\ \A d \in 1..Len(e.in_str) :
           (e.in_str[d] = "$" /\ Plain(SubSeq(e.in_str, 1, d - 1))) =>
               e.out = SubSeq(e.in_str, 1, d - 1) \o AtDollar(skip(e.in_str, d - 1), e.flat)

\* C27: interpolate returns a template without `$` and `\` unchanged; up to
\* the first `$` the text is copied, `$$` there gives one `$`, `${name}` gives
\* the variable's text (nothing when it is undefined) as it is, without
\* scanning it, a `$` followed by neither and a `${` without `}` are copied,
\* and the scan goes on behind; in flat and in multi-line mode.
C27_Interpolate ==
    \A i \in 1..Len(trace) : trace[i].ev = "interpolate" => Scanned(trace[i])

\* `${a}n` gave the value `${n}` of a, not scanned, and then n
C27_Witness ==
    /\ trace # <<>> /\ trace[1].ev = "interpolate"
    /\ trace[1].in_str = <<"$", "{", "a", "}", "n">>
    /\ trace[1].out = <<"$", "{", "n", "}", "n">>


-----------------------------------------------------------------------------
(* Formal arguments *)

\* a recipe of the execution list is being executed
InRecipe == phase = "body" /\ sidx \in 1..Len(sec)
IsRest(formal) == starts_with(formal, <<"+">>)
PlainUpTo(formals, i) == \A j \in 1..i : ~IsRest(formals[j])
\* what the claim says of the formals of the recipe being executed
Bound(formals) ==
    \A i \in 1..Len(formals) :
        /\ (PlainUpTo(formals, i) /\ i <= Len(free)) => var(formals[i]) = VStr(free[i])
        /\ (IsRest(formals[i]) /\ i = Len(formals) /\ PlainUpTo(formals, i - 1)) =>
               var(skip(formals[i], 1)) = VList(SubSeq(free, i, Len(free)))

\* C28: while a recipe of the execution list runs, its i-th formal is the i-th
\* free argument as a Str, and a last formal with `+` is the List of the free
\* arguments from its position on, however many free arguments there are.
C28_FormalsBound == (pending.args # {} /\ InRecipe) => Bound(sec[sidx].vars)

\* the same where the `+` formal has a free argument at its position
BoundWhereGiven(formals) ==
    \A i \in 1..Len(formals) :
        /\ (PlainUpTo(formals, i) /\ i <= Len(free)) => var(formals[i]) = VStr(free[i])
        /\ (IsRest(formals[i]) /\ i <= Len(free) /\ PlainUpTo(formals, i - 1)) =>
               var(skip(formals[i], 1)) = VList(SubSeq(free, i, Len(free)))
        /\ i > Len(free) => var(trim_start_matches(formals[i], "+")) = Undefined
FormalsBoundWhereGiven == (pending.args # {} /\ InRecipe) => BoundWhereGiven(sec[sidx].vars)


-----------------------------------------------------------------------------
(* Unmatched openers and stray closers *)

\* the opener at line i of the ops has no StmtClose of its own behind it
Nesting(ops, i, j) ==
    1 + Cardinality({l \in (i + 1)..j : IsOpener(ops[l])})
      - Cardinality({l \in (i + 1)..j : ops[l].k = "StmtClose"})
Unmatched(ops, i) ==
    IsOpener(ops[i]) /\ \A j \in (i + 1)..Len(ops) : Nesting(ops, i, j) > 0
\* the engine was given one script to run main of, and the first op of its
\* header or of the body of main, its first recipe, is an unmatched opener
RanUnmatched ==
    /\ Len(files) = 1 /\ pending.scripts = <<>> /\ pending.run = {"main"}
    /\ Len(files[1].ops) >= 2
    /\ \/ Unmatched(files[1].ops, 1)
       \/ files[1].ops[1].k = "Recipe" /\ Unmatched(files[1].ops, 2)

\* C29: the run of a script whose header or recipe body holds an opener
\* without its StmtClose ends with the no-matching-end error, whatever the
\* opener's condition or sequence is.
C29_UnmatchedOpener == (RanUnmatched /\ Done) => result.kind = NoMatchingEndError

\* the op at pc is a StmtClose, Else or ElseIf that has no `if` to belong to
InLoop == cond_stack # <<>> /\ Top(cond_stack).cond.k \in {"While", "ForInt", "ForList"}
EndsWith(kind) == phase' = "done" /\ result'.kind = kind /\ pc' = pc /\ trace' = trace
StrayStep ==
    /\ (At("StmtClose") /\ cond_stack = <<>>) => EndsWith(StrayEndError)
    /\ (At("Else") /\ (cond_stack = <<>> \/ InLoop)) => EndsWith(StrayElseError)
    /\ (At("ElseIf") /\ (cond_stack = <<>> \/ InLoop)) => EndsWith(StrayElseIfError)

-----------------------------------------------------------------------------
(* Guarded constructs *)

IsHead(raw, h) == ~IsPending(raw[h])
\* the depth of blocks the op behind line j stands in
Depth(raw, j) ==
    Cardinality({l \in 1..j : IsOpener(raw[l])}) - Cardinality({l \in 1..j : raw[l].k = "StmtClose"})
\* every block of the script is closed, no StmtClose is stray, the recipe
\* headers stand outside of the blocks and the guards of each of them pass
WellFormed(raw) ==
    /\ \A j \in 1..Len(raw) : Depth(raw, j) >= 0
    /\ Depth(raw, Len(raw)) = 0
    /\ \A h \in HeaderLines(raw) : Depth(raw, h) = 0 /\ GuardsPass(raw, h)
\* the construct that starts on line h: the statement, or the block up to its
\* StmtClose
MatchingEnd(raw, h) ==
    CHOOSE j \in (h + 1)..Len(raw) :
        /\ raw[j].k = "StmtClose" /\ Depth(raw, j) = Depth(raw, h) - 1
        /\ \A x \in (h + 1)..(j - 1) : ~(raw[x].k = "StmtClose" /\ Depth(raw, x) = Depth(raw, h) - 1)
Construct(raw, h) == IF IsOpener(raw[h]) THEN h..MatchingEnd(raw, h) ELSE {h}
Guarded(raw) == {h \in 1..Len(raw) : IsHead(raw, h) /\ ~GuardsPass(raw, h)}
Removed(raw) == UNION {Construct(raw, h) : h \in Guarded(raw)}
Statements(ops) == {j \in 1..Len(ops) : ~IsPending(ops[j])}

\* C31: of a script whose blocks are closed the retained stream holds, in the
\* order of the script and unchanged, every statement that is not part of a
\* construct with a failing guard in front of it, and no other statement: a
\* failing guard takes away the statement behind it, or the block from the
\* opener behind it to its StmtClose, and nothing behind that.
C31_GuardRemoves ==
    \A i \in Loads : WellFormed(Raw(i)) =>
        /\ {Kept(i)[j].line : j \in Statements(Kept(i))}
               = {h \in 1..Len(Raw(i)) : IsHead(Raw(i), h)} \ Removed(Raw(i))
        /\ \A j \in Statements(Kept(i)) : Kept(i)[j] = Raw(i)[Kept(i)[j].line]
        /\ \A j, k \in 1..Len(Kept(i)) : j < k => Kept(i)[j].line <= Kept(i)[k].line

\* a block with a nested block was removed with its failing guard, and the
\* statement behind its StmtClose was retained
C31_Witness ==
    \E i \in Loads : \E h \in Guarded(Raw(i)) :
        /\ WellFormed(Raw(i))
        /\ IsOpener(Raw(i)[h])
        /\ \E x \in Construct(Raw(i), h) : x > h /\ IsOpener(Raw(i)[x])
        /\ MatchingEnd(Raw(i), h) + 1 \in {Kept(i)[j].line : j \in Statements(Kept(i))}


-----------------------------------------------------------------------------
(* Writes *)

\* list2 has the entries of list, those of other names than name unchanged
OnlyValueOf(list, list2, name) ==
    /\ Len(list2) = Len(list)
    /\ \A i \in 1..Len(list) :
           list2[i].name = list[i].name /\ (list[i].name # name => list2[i] = list[i])
SetVarEffect(name, val) ==
    /\ env' = env
    /\ IF HasVar(recipe_vars, name)
       THEN /\ vars' = vars
            /\ OnlyValueOf(recipe_vars, recipe_vars', name)
            /\ recipe_vars'[VarPos(recipe_vars, name)].value = val
       ELSE /\ recipe_vars' = recipe_vars
            /\ IF HasVar(vars, name)
               THEN OnlyValueOf(vars, vars', name) /\ vars'[VarPos(vars, name)].value = val
               ELSE vars' = Append(vars, Var(name, val))
SetVarStep == \A name \in VarNames, val \in VarValues : SetVar(name, val) => SetVarEffect(name, val)
\* the globals outlive the recipe
ExitKeepsGlobals ==
    RecipeExit =>
        /\ vars' = vars /\ env' = env /\ recipe_vars' = <<>>
        /\ \A name \in VarNames :
               (HasVar(vars, name) /\ ~HasVar(recipe_vars, name)) => var(name)' = var(name)

\* C32: set_var changes the value of the recipe-local entry of the name when
\* there is one, else that of the global entry when there is one, else appends
\* a global entry; every other entry, the list of recipe-local names and the
\* env overlay stay as they are, and the globals are the same after the recipe
\* is left.
C32_SetVar == [][SetVarStep /\ ExitKeepsGlobals]_vars_all

\* a was set by set_var while only H was recipe-local, the recipe was left and
\* a is still set
C32_Witness ==
    /\ Len(trace) = 3
    /\ trace[1].ev = "set_recipe_var" /\ trace[1].cmd = <<"H">>
    /\ trace[2].ev = "set_var" /\ trace[2].cmd = <<"a">>
    /\ trace[3].ev = "leave_recipe"
    /\ HasVar(vars, <<"a">>) /\ ~HasVar(vars, <<"H">>) /\ recipe_vars = <<>>


-----------------------------------------------------------------------------
(* Integer ranges *)

\* a `for` over an integer range with step 0 or with a step against the
\* direction from start to end
BadRange(op) ==
    /\ op.k = "For" /\ op.seq.k = "Int"
    /\ \/ op.seq.step = 0
       \/ op.seq.step > 0 /\ op.seq.start > op.seq.end
       \/ op.seq.step < 0 /\ op.seq.start < op.seq.end
HasBadRange(ops) == \E i \in 1..Len(ops) : BadRange(ops[i])
\* loading a script with such a line fails and adds nothing to the engine
BadRangeStep ==
    (phase = "load" /\ pending.scripts # <<>> /\ HasBadRange(Head(pending.scripts).ops)) =>
        /\ phase' = "done" /\ result'.kind = SeqError
        /\ files' = files /\ recipes' = recipes /\ trace' = trace
NoBadRangeLoaded == \A f \in 1..Len(files) : ~HasBadRange(files[f].ops)

\* C33: loading a script that holds a `for` over an integer range with step 0
\* or with a step of the wrong sign fails with the sequence error, no file of
\* the engine ever holds such a line and nothing is executed.
C33_BadRange ==
    /\ []NoBadRangeLoaded
    /\ [](result.kind = SeqError => phase = "done" /\ trace = <<>>)
    /\ [][BadRangeStep]_vars_all

\* the load of a script with such a loop has failed
C33_Witness == phase = "done" /\ result.kind = SeqError /\ files = <<>> /\ trace = <<>>


-----------------------------------------------------------------------------
(* The condition stack behind a conditional *)

\* the engine runs a script that is one conditional and the command z behind it
IfScripts == {sc.scripts : sc \in Placed(IfPrograms)}
BehindIf == files \in IfScripts /\ At("Shell") /\ CurOp.cmd = <<"z">>

\* C34: when control has passed the StmtClose of a conditional that was begun
\* with an empty condition stack, by whichever branch, the stack is empty again.
C34_IfRestoresStack == BehindIf => cond_stack = <<>>

----------------------------------------------------------------------------
(* C35: the ops run for a recipe are the ops of its own body *)

\* the recipe that is being executed, and the ops between its Recipe op and pc
Current == sec[sidx]
BodyUpTo(i) == {files[file].ops[j].k : j \in (Current.loc.line + 1)..(i - 1)}
Executing == phase = "body" /\ ~AtEnd
\* C35: while a recipe's body is executed, the instruction index is behind the
\* recipe's Recipe op and no other Recipe op lies between the two.
C35_StaysInRecipe ==
    Executing => /\ file = Current.loc.file
                 /\ pc > Current.loc.line
                 /\ "Recipe" \notin BodyUpTo(pc)

----------------------------------------------------------------------------
(* C36: the condition stack a recipe starts with *)

\* exec_recipe starts the body of its first recipe, or of the next one
StartsRecipe == phase' = "body" /\ (phase # "body" \/ sidx' # sidx)
\* C36: when the body of a recipe starts, the condition stack is empty.
C36_EmptyStackAtStart == [][StartsRecipe => cond_stack' = <<>>]_vars_all
\* the part that holds: a recipe that follows another recipe starts with an
\* empty stack
EmptyStackAtNextRecipe ==
    [][(phase = "body" /\ phase' = "body" /\ sidx' # sidx) => cond_stack' = <<>>]_vars_all

----------------------------------------------------------------------------
(* C37: the condition ops of If, ElseIf and While *)

CondOps == {"If", "ElseIf", "While"}
OneConditionOp(f) == \A i \in 1..Len(f.ops) : f.ops[i].k \in CondOps => Len(f.ops[i].ops) = 1
\* C37: every If, ElseIf and While op of a loaded file has exactly one condition
\* op, and no assertion on the length of a condition list fails.
C37_OneConditionOp ==
    /\ \A f \in 1..Len(files) : OneConditionOp(files[f])
    /\ result.kind # AssertFailed
\* the second half on its own
NoAssertFails == result.kind # AssertFailed

----------------------------------------------------------------------------
(* C38: recipe detection records a recipe once *)

RecipeOps ==
    UNION {{RecipeLoc(f, i) : i \in {j \in 1..Len(files[f].ops) : files[f].ops[j].k = "Recipe"}} :
              f \in 1..Len(files)}
Described == {recipes[i].loc : i \in 1..Len(recipes)}
NoLoadFailed == result.kind = "none"
\* C38: after the loads that completed, the list of recipes has exactly one
\* descriptor for each Recipe op of the loaded files.
C38_OneDescriptorPerRecipe ==
    NoLoadFailed => Described = RecipeOps /\ Len(recipes) = Cardinality(RecipeOps)
\* what holds: every Recipe op of the loaded files has a descriptor
EveryRecipeDescribed == NoLoadFailed => Described = RecipeOps

----------------------------------------------------------------------------
(* C39: the loaded files and their names *)

FileNotLoaded == "FileNotLoaded"
IndexOutOfBounds == "IndexOutOfBounds"
\* Engine::file_name, file_idx counted from 1
file_name(file_idx) ==
    IF file_idx > Len(files) THEN [err |-> FileNotLoaded, name |-> <<>>]
    ELSE IF file_idx > Len(included) THEN [err |-> IndexOutOfBounds, name |-> <<>>]
    ELSE [err |-> "", name |-> included[file_idx]]
\* the file name is that of a file on the disk that holds the script
Names(name, hk) == name \in DOMAIN pending.disk /\ pending.disk[name] = hk
\* C39: the list of loaded files and the list of file names have the same
\* length, and file_name(i) succeeds with the name of file i for every loaded
\* file i.
C39_FilesNamed ==
    /\ Len(included) = Len(files)
    /\ \A i \in 1..Len(files) : file_name(i).err = "" /\ Names(file_name(i).name, files[i])
\* what holds: the names are those of the files that were loaded from the disk,
\* in load order; the scripts loaded from memory, which come first here, have
\* none
FromDiskNamed ==
    \A i \in 1..Len(included) : Names(included[i], files[Len(files) - Len(included) + i])

----------------------------------------------------------------------------
(* C40: the three outcomes of a comparison exclude each other *)

Both(e, p, q) == e.is[p] /\ e.is[q]
\* C40: of a < b, a == b and a > b at most one is true, for every pair of
\* values.
C40_AtMostOneOutcome ==
    \A e \in Comparisons : ~Both(e, "<", "==") /\ ~Both(e, "==", ">") /\ ~Both(e, "<", ">")
\* what holds for two Int values and for two Str values
AtMostOneOutcomeIntStr ==
    \A e \in Comparisons :
        e.a.t = e.b.t /\ e.a.t \in {"Int", "Str"} =>
            ~Both(e, "<", "==") /\ ~Both(e, "==", ">") /\ ~Both(e, "<", ">")

====
